---- MODULE Spec2Model ----
(***************************************************************************)
(* Model of the streaming-subscription core of src/CapitalA.py             *)
(* (class CapitalComAPI): the subscription registry _ws_subscriptions, the *)
(* supervisor loop _ws_run with its transport callbacks, the keepalive     *)
(* ticker and the public subscribe / unsubscribe / stop-all operations.    *)
(*                                                                         *)
(* Threads: one calling thread that invokes the public operations one      *)
(* after the other, any number (bounded by MaxThreads) of supervisor       *)
(* threads running _ws_run, and the keepalive tickers.  Every step of a    *)
(* thread is one action; a critical section under _ws_lock is one step.    *)
(***************************************************************************)
EXTENDS Integers, Sequences, FiniteSets, TLC

(***************************************************************************)
(* Bounds of the model.                                                    *)
(***************************************************************************)
MaxThreads == 2   \* supervisor threads that can exist at the same time
MaxCalls   == 3   \* public operations the calling thread performs
MaxFail    == 1   \* connection failures / drops the network produces
MaxTickers == 2   \* keepalive tickers alive at the same time
MaxWarmCalls == 2 \* public operations of the calling thread in SpecWarm
MaxOrphanCalls == 1 \* public operations of the calling thread in SpecOrphan
MaxClock == 1 \* seconds the clock moves on in SpecSup
MaxTicks == 1 \* ticks of the keepalive ticker in SpecPing
MaxLockCalls == 1 \* public operations of the calling thread in SpecLock

(***************************************************************************)
(* Program constants.                                                      *)
(***************************************************************************)
MaxReconnectAttempts  == 10
InitialReconnectDelay == 5
MaxReconnectDelay     == 60
WaitInterval          == 1

None == "None"

\* class WebSocketStatus
DISCONNECTED == "DISCONNECTED"
CONNECTING   == "CONNECTING"
CONNECTED    == "CONNECTED"
STOPPING     == "STOPPING"

\* class WebsocketDataType
MARKET == "MARKET"
OHLC   == "OHLC"

\* class OhlcBarType (the members)
CLASSIC     == "CLASSIC"
HEIKIN_ASHI == "HEIKIN_ASHI"

\* member.value, for the members of OhlcBarType and HistoricalPriceResolution
Value(m) ==
    CASE m = "CLASSIC"     -> "classic"
      [] m = "HEIKIN_ASHI" -> "heikin-ashi"
      [] OTHER             -> m

AUTH_FAILURE == "exceptions.security.authentication-failure"

Threads == 1..MaxThreads

(***************************************************************************)
(* Inputs of the public operations.                                        *)
(***************************************************************************)
Epics       == {"BTCUSD", "EURUSD"}
Resolutions == {"MINUTE_5", "HOUR"}
BarTypes    == {CLASSIC, HEIKIN_ASHI}
Callbacks   == {"cb1", "cb2"}

Stream(e, d, r, b) == [epic |-> e, data_type |-> d, resolution |-> r, bar_type |-> b]

\* every argument tuple of subscribe / unsubscribe, valid or not
AllStreams ==
    {Stream(e, MARKET, None, CLASSIC) : e \in Epics}
    \cup {Stream(e, OHLC, r, b) : e \in Epics, r \in Resolutions \cup {None}, b \in BarTypes}

\* the argument tuples the calling thread draws from
Streams ==
    { Stream("BTCUSD", MARKET, None, CLASSIC),
      Stream("EURUSD", OHLC, "MINUTE_5", CLASSIC),
      Stream("EURUSD", OHLC, "MINUTE_5", HEIKIN_ASHI),
      Stream("EURUSD", OHLC, None, CLASSIC) }

ValidArgs(s) == s.data_type = MARKET \/ (s.data_type = OHLC /\ s.resolution # None)

(***************************************************************************)
(* Canonical stream key, as subscribe and unsubscribe build it.            *)
(***************************************************************************)
StreamKey(s) ==
    IF s.data_type = MARKET
    THEN "/market/" \o s.epic
    ELSE "/ohlc/" \o s.epic \o "/" \o Value(s.resolution) \o "/" \o Value(s.bar_type)

(***************************************************************************)
(* Canonical stream key, as the router derives it from an inbound frame.   *)
(* Get is dict.get with a default.                                         *)
(***************************************************************************)
Get(m, f, dflt) == IF f \in DOMAIN m THEN m[f] ELSE dflt

\* a router key that ignores the bar type of the frame (faulty variant of RouteKey)
RouteKeyNoType(message) ==
    IF ~("payload" \in DOMAIN message) \/ ~("epic" \in DOMAIN message.payload)
    THEN None
    ELSE IF Get(message, "destination", None) = "quote"
         THEN "/market/" \o message.payload.epic
         ELSE IF Get(message, "destination", None) = "ohlc.event"
                 /\ Get(message.payload, "resolution", None) # None
              THEN "/ohlc/" \o message.payload.epic \o "/" \o message.payload.resolution
                       \o "/" \o Value(CLASSIC)
              ELSE None

RouteKey(message) ==
    LET dest == Get(message, "destination", None)
    IN  IF ~("payload" \in DOMAIN message) \/ ~("epic" \in DOMAIN message.payload)
        THEN None
        ELSE LET payload == message.payload
             IN  IF dest = "quote"
                 THEN "/market/" \o payload.epic
                 ELSE IF dest = "ohlc.event"
                      THEN LET resolution == Get(payload, "resolution", None)
                               bar_type   == Get(payload, "type", Value(CLASSIC))
                           IN  IF resolution # None
                               THEN "/ohlc/" \o payload.epic \o "/" \o resolution
                                        \o "/" \o bar_type
                               ELSE None
                      ELSE None

\* a classification that looks for data before it looks at errorCode (faulty variant of
\* Classify)
ClassifyDataFirst(message) ==
    IF "payload" \in DOMAIN message /\ "epic" \in DOMAIN message.payload
    THEN "data"
    ELSE IF Get(message, "errorCode", None) # None
         THEN IF message.errorCode = AUTH_FAILURE THEN "auth_failure" ELSE "error"
         ELSE IF /\ Get(message, "status", None) = "OK"
                 /\ "correlationId" \in DOMAIN message
                 /\ "payload" \in DOMAIN message
                 /\ "subscriptions" \in DOMAIN message.payload
                 /\ message.payload.subscriptions # <<>>
                 /\ message.payload.subscriptions[1] = "PROCESSED"
              THEN "ack"
              ELSE "unprocessed"

\* _ws_on_message: which branch handles the frame
Classify(message) ==
    IF Get(message, "errorCode", None) # None
    THEN IF message.errorCode = AUTH_FAILURE THEN "auth_failure" ELSE "error"
    ELSE IF /\ Get(message, "status", None) = "OK"
            /\ "correlationId" \in DOMAIN message
            /\ "payload" \in DOMAIN message
            /\ "subscriptions" \in DOMAIN message.payload
            /\ message.payload.subscriptions # <<>>
            /\ message.payload.subscriptions[1] = "PROCESSED"
         THEN "ack"
         ELSE IF "payload" \in DOMAIN message /\ "epic" \in DOMAIN message.payload
              THEN "data"
              ELSE "unprocessed"

(***************************************************************************)
(* The registry: a dict in insertion order, modelled as a sequence of      *)
(* records that carry their key.                                           *)
(***************************************************************************)
SubInfo(s, cb) ==
    [ key        |-> StreamKey(s),
      callback   |-> cb,
      epic       |-> s.epic,
      data_type  |-> s.data_type,
      resolution |-> s.resolution,
      bar_type   |-> s.bar_type,
      active     |-> TRUE ]

NoSub == [key |-> None]

Keys(reg) == {reg[i].key : i \in DOMAIN reg}

\* a lookup that falls back on the first record (faulty variant of RegGet)
RegGetAny(reg, k) ==
    IF \E i \in DOMAIN reg : reg[i].key = k
    THEN reg[CHOOSE i \in DOMAIN reg : reg[i].key = k]
    ELSE IF reg = <<>> THEN NoSub ELSE reg[1]

RegGet(reg, k) ==
    IF k \in Keys(reg) THEN reg[CHOOSE i \in DOMAIN reg : reg[i].key = k] ELSE NoSub

\* a registry write that never replaces (faulty variant of RegSet)
RegSetAppends(reg, r) == Append(reg, r)

\* self._ws_subscriptions[key] = {...}: replaces in place or appends
RegSet(reg, r) ==
    IF r.key \in Keys(reg)
    THEN [i \in DOMAIN reg |-> IF reg[i].key = r.key THEN r ELSE reg[i]]
    ELSE Append(reg, r)

\* a removal that leaves the registry as it was (faulty variant of RegPop)
RegPopKeeps(reg, k) == reg

\* self._ws_subscriptions.pop(key, None): what is left
RegPop(reg, k) == SelectSeq(reg, LAMBDA e : e.key # k)

(***************************************************************************)
(* Control frames, one builder per place of the source that builds one.    *)
(* A builder returns None where the source skips the record.               *)
(***************************************************************************)
NoMsg == [destination |-> None]

\* subscribe_to_epic_data: payload_data and subscribe_msg
SubscribeMsg(s) ==
    IF s.data_type = MARKET
    THEN [destination |-> "marketData.subscribe", payload |-> [epics |-> <<s.epic>>]]
    ELSE [destination |-> "OHLCMarketData.subscribe",
          payload |-> [epics |-> <<s.epic>>, resolutions |-> <<Value(s.resolution)>>,
                       type |-> Value(s.bar_type)]]

\* a resubscription that skips the OHLC records (faulty variant of ResubscribeMsg)
ResubscribeMsgMarketOnly(sub_info) ==
    IF sub_info.active /\ sub_info.data_type = MARKET
    THEN [destination |-> "marketData.subscribe", payload |-> [epics |-> <<sub_info.epic>>]]
    ELSE NoMsg

\* _ws_on_open: the frame of one record of the snapshot
ResubscribeMsg(sub_info) ==
    IF ~sub_info.active
    THEN NoMsg
    ELSE IF sub_info.data_type = MARKET
         THEN [destination |-> "marketData.subscribe",
               payload |-> [epics |-> <<sub_info.epic>>]]
         ELSE IF sub_info.data_type = OHLC
              THEN IF sub_info.resolution = None \/ sub_info.bar_type = None
                   THEN NoMsg
                   ELSE [destination |-> "OHLCMarketData.subscribe",
                         payload |-> [epics |-> <<sub_info.epic>>,
                                      resolutions |-> <<Value(sub_info.resolution)>>,
                                      type |-> Value(sub_info.bar_type)]]
              ELSE NoMsg

\* unsubscribe_from_epic_data: unsubscribe_payload and unsubscribe_msg
UnsubscribeMsg(s) ==
    IF s.data_type = MARKET
    THEN [destination |-> "marketData.unsubscribe", payload |-> [epics |-> <<s.epic>>]]
    ELSE [destination |-> "OHLCMarketData.unsubscribe",
          payload |-> [epics |-> <<s.epic>>, resolutions |-> <<Value(s.resolution)>>,
                       types |-> <<Value(s.bar_type)>>]]

\* an unsubscribe frame that names the epic only (faulty variant of UnsubAllMsg)
UnsubAllMsgEpicOnly(item) ==
    IF item.data_type = MARKET
    THEN [destination |-> "marketData.unsubscribe", payload |-> [epics |-> <<item.epic>>]]
    ELSE [destination |-> "OHLCMarketData.unsubscribe", payload |-> [epics |-> <<item.epic>>]]

\* stop_all_websocket_subscriptions: the frame of one captured item
UnsubAllMsg(item) ==
    IF item.data_type = MARKET
    THEN [destination |-> "marketData.unsubscribe", payload |-> [epics |-> <<item.epic>>]]
    ELSE IF item.data_type = OHLC
         THEN IF item.resolution # None /\ item.bar_type # None
              THEN [destination |-> "OHLCMarketData.unsubscribe",
                    payload |-> [epics |-> <<item.epic>>,
                                 resolutions |-> <<Value(item.resolution)>>,
                                 types |-> <<Value(item.bar_type)>>]]
              ELSE [destination |-> "OHLCMarketData.unsubscribe",
                    payload |-> [epics |-> <<item.epic>>]]
         ELSE NoMsg

\* stop_all_websocket_subscriptions: one entry of destinations_to_unsubscribe_server
CapturedItem(sub_info) ==
    [ stream_destination_key |-> sub_info.key,
      epic       |-> sub_info.epic,
      data_type  |-> sub_info.data_type,
      resolution |-> sub_info.resolution,
      bar_type   |-> sub_info.bar_type ]

(***************************************************************************)
(* Correlation identifiers: the f-strings of the four senders, built from  *)
(* the fields of the stream and the clock second n.  A frame on the wire   *)
(* is kept as its destination and payload together with this identifier.   *)
(***************************************************************************)
\* _ws_on_open: f"reopen-{epic}-{data_type.value}-{int(time.time())}"
ReopenId(sub_info, n) ==
    "reopen-" \o sub_info.epic \o "-" \o sub_info.data_type \o "-" \o ToString(n)

\* the part shared by subscribe and unsubscribe:
\* f"{epic}-{data_type.value}-{resolution.value if resolution else ''}-
\*    {bar_type.value if data_type == OHLC else ''}-{int(time.time())}"
CallIdTail(s, n) ==
    s.epic \o "-" \o s.data_type
    \o "-" \o (IF s.resolution # None THEN Value(s.resolution) ELSE "")
    \o "-" \o (IF s.data_type = OHLC THEN Value(s.bar_type) ELSE "")
    \o "-" \o ToString(n)

\* subscribe_to_epic_data: f"sub-..."
SubId(s, n) == "sub-" \o CallIdTail(s, n)

\* unsubscribe_from_epic_data: f"unsub-..."
UnsubId(s, n) == "unsub-" \o CallIdTail(s, n)

\* stop_all_websocket_subscriptions: f"unsub-all-{epic}-{data_type.value}-{int(time.time())}"
UnsubAllId(item, n) ==
    "unsub-all-" \o item.epic \o "-" \o item.data_type \o "-" \o ToString(n)

(***************************************************************************)
(* Inbound frames the server delivers.  The "subscriptions" object of an   *)
(* acknowledgement is held as the sequence of its values.                  *)
(***************************************************************************)
QuoteFrame(e) == [destination |-> "quote", payload |-> [epic |-> e, bid |-> "1"]]

OhlcFrame(e, r, b) ==
    [destination |-> "ohlc.event", payload |-> [epic |-> e, resolution |-> r, type |-> b]]

InFrames ==
    { [errorCode |-> AUTH_FAILURE, errorMessage |-> "denied"],
      [errorCode |-> "error.invalid.epic", destination |-> "quote",
       payload |-> [epic |-> "BTCUSD", bid |-> "1"]],
      [status |-> "OK", destination |-> "marketData.subscribe", correlationId |-> "1",
       payload |-> [subscriptions |-> <<"PROCESSED">>]],
      [status |-> "OK", destination |-> "ping", correlationId |-> "2",
       payload |-> [epic |-> "BTCUSD"]],
      QuoteFrame("BTCUSD"),
      QuoteFrame("EURUSD"),
      OhlcFrame("EURUSD", "MINUTE_5", "classic"),
      OhlcFrame("EURUSD", "MINUTE_5", "heikin-ashi"),
      OhlcFrame("EURUSD", "HOUR", "classic"),
      [destination |-> "ohlc.event", payload |-> [epic |-> "EURUSD", type |-> "classic"]],
      [destination |-> "ohlc.event", payload |-> [epic |-> "EURUSD", resolution |-> "MINUTE_5"]] }

(***************************************************************************)
(* login(): the tokens afterwards and the value returned.  cst and xst say *)
(* whether the token is present; an outcome says how the request ended and *)
(* which token headers the response carried.                               *)
(***************************************************************************)
LoginOutcomes ==
    { [kind |-> "ok",         hcst |-> TRUE,  hxst |-> TRUE],
      [kind |-> "ok",         hcst |-> TRUE,  hxst |-> FALSE],
      [kind |-> "http_error", hcst |-> FALSE, hxst |-> FALSE],
      [kind |-> "network",    hcst |-> FALSE, hxst |-> FALSE],
      [kind |-> "bad_json",   hcst |-> TRUE,  hxst |-> TRUE] }

LoginResult(c, x, o) ==
    IF o.kind = "network"
    THEN [cst |-> FALSE, xst |-> FALSE, ok |-> FALSE]
    ELSE LET c1 == c \/ o.hcst      \* _update_auth_tokens
             x1 == x \/ o.hxst
         IN  IF o.kind = "http_error"
             THEN [cst |-> FALSE, xst |-> FALSE, ok |-> FALSE]
             ELSE IF ~c1 \/ ~x1
                  THEN [cst |-> c1, xst |-> x1, ok |-> FALSE]
                  ELSE IF o.kind = "bad_json"
                       THEN [cst |-> FALSE, xst |-> FALSE, ok |-> FALSE]
                       ELSE [cst |-> c1, xst |-> x1, ok |-> TRUE]

(***************************************************************************)
(* The reconnect delay of _ws_run.                                         *)
(***************************************************************************)
Min(a, b) == IF a < b THEN a ELSE b

\* a delay that doubles without a cap (faulty variant of ReconnectDelay)
ReconnectDelayUncapped(n) == InitialReconnectDelay * (2 ^ n)

ReconnectDelay(n) == Min(InitialReconnectDelay * (2 ^ n), MaxReconnectDelay)

(***************************************************************************)
(* State.                                                                  *)
(***************************************************************************)
VARIABLES
    \* fields of CapitalComAPI
    cst, xst,              \* whether each session token is present
    subs,                  \* _ws_subscriptions
    ws_thread,             \* the supervisor thread referenced, 0 for None
    ws_connection,         \* the thread whose connection is referenced, 0 for None
    stop_event,            \* _ws_stop_event
    ping_stop_event,       \* _ws_ping_stop_event
    attempts,              \* _ws_reconnect_attempts
    status,                \* _ws_status
    ping_thread,           \* _ws_ping_thread: "none", "alive" or "dead"
    orphans,               \* tickers still alive that no field references
    \* supervisor threads
    pc,                    \* position of each thread in _ws_run and its callbacks
    conn,                  \* transport of each thread: none, connecting, open, closing, closed
    snap, idx,             \* _ws_on_open: subscriptions_to_resubscribe and the loop index
    ofail,                 \* _ws_on_open: whether a send of this call raised
    delay, slept,          \* _ws_run: delay and slept_time
    wire,                  \* frames written to each thread's current connection
    rx,                    \* _ws_on_message: the frame in hand, the record looked up, the
                           \* callbacks invoked, and whether one raised earlier (faults)
    consec,                \* closes of each thread since its last open
    fatal,                 \* whether the thread has received an authentication failure
    \* the calling thread
    cpc,                   \* position in the operation in progress
    call,                  \* the operation in progress and its arguments
    popped,                \* unsubscribe: sub_info_popped
    captured, cidx,        \* stop_all: destinations_to_unsubscribe_server and loop index
    cfail,                 \* whether a send of this call raised
    csent,                 \* the frames this call has written
    started,               \* subscribe: whether this call started a supervisor thread
    raised,                \* the exception the last call raised, None if none
    \* environment budgets and observers
    calls, fails,
    now,                   \* the clock: the second int(time.time()) reads
    bare_reads,            \* the places that have read the registry without holding _ws_lock
    ws_lock,               \* _ws_lock: 0 when free, else the thread inside a with block
    req,                   \* _request: the call in progress, its position and its counts
    ping_run,              \* _ws_application_ping_run: whether a ticker is past its tests
                           \* ("build") or in its wait, and the ticks taken so far
    desired,               \* per stream: the callback last registered, None once removed
    stopRequested          \* _stop_websocket_thread asked for a stop and no start followed

apiVars  == <<cst, xst, subs, ws_thread, ws_connection, stop_event, ping_stop_event,
              attempts, status, ping_thread, orphans>>
thrVars  == <<pc, conn, snap, idx, ofail, delay, slept, wire, rx, consec, fatal>>
callVars == <<cpc, call, popped, captured, cidx, cfail, csent, started, raised>>
envVars  == <<calls, fails, now, ping_run, bare_reads, req, ws_lock, desired, stopRequested>>
vars     == <<apiVars, thrVars, callVars, envVars>>

ValidStreams == {s \in Streams : ValidArgs(s)}

NoCall == [op |-> None]
NoTick == [at |-> "wait", n |-> 0]
NoReq  == [at |-> "idle"]
NoRx   == [message |-> NoMsg, sub_info |-> NoSub, invoked |-> <<>>, faults |-> FALSE]

Alive(t) == t # 0 /\ pc[t] \notin {"idle", "done"}

\* the calling thread, as a holder of _ws_lock
Main == MaxThreads + 1

\* with self._ws_lock: the block is entered when the lock is free or this thread has
\* taken it in a step of its own, and leaving the block releases it
HasLock(me) == ws_lock \in {0, me}

Release == ws_lock' = 0

TokensPresent == cst /\ xst

Tickers == orphans + (IF ping_thread = "alive" THEN 1 ELSE 0)

\* WebSocketApp.close() on the connection of thread c
Closed(cn, c) ==
    IF c # 0 /\ cn[c] \in {"connecting", "open"} THEN [cn EXCEPT ![c] = "closing"] ELSE cn

\* connection.send(frame): written when the transport is open, raises otherwise
CanSend(c) == c # 0 /\ conn[c] = "open"

Sent(w, c, frame, cid, by, st) ==
    [w EXCEPT ![c] = Append(@, [frame |-> frame, correlationId |-> cid,
                                by |-> by, starter |-> st])]

\* the supervisor threads with thread 1 at position l, after n closes since its last
\* open and (f) an authentication failure, and the others not started
ThreadsAt(l, n, f) ==
    /\ pc = [t \in Threads |-> IF t = 1 THEN l ELSE "idle"]
    /\ conn = [t \in Threads |-> "none"]
    /\ snap = [t \in Threads |-> <<>>]
    /\ idx = [t \in Threads |-> 0]
    /\ ofail = [t \in Threads |-> FALSE]
    /\ delay = [t \in Threads |-> 0]
    /\ slept = [t \in Threads |-> 0]
    /\ wire = [t \in Threads |-> <<>>]
    /\ rx = [t \in Threads |-> NoRx]
    /\ consec = [t \in Threads |-> IF t = 1 THEN n ELSE 0]
    /\ fatal = [t \in Threads |-> t = 1 /\ f]

CallInit ==
    /\ cpc = "idle"
    /\ call = NoCall
    /\ popped = NoSub
    /\ captured = <<>>
    /\ cidx = 0
    /\ cfail = FALSE
    /\ csent = <<>>
    /\ started = FALSE
    /\ raised = None

\* __init__
Init ==
    /\ cst = FALSE /\ xst = FALSE
    /\ subs = <<>>
    /\ ws_thread = 0 /\ ws_connection = 0
    /\ stop_event = FALSE /\ ping_stop_event = FALSE
    /\ attempts = 0
    /\ status = DISCONNECTED
    /\ ping_thread = "none" /\ orphans = 0
    /\ ThreadsAt("idle", 0, FALSE)
    /\ CallInit
    /\ calls = 0 /\ fails = 0 /\ now = 0 /\ ping_run = NoTick /\ bare_reads = {}
    /\ ws_lock = 0
    /\ req = NoReq
    /\ desired = [s \in ValidStreams |-> None]
    /\ stopRequested = FALSE

(***************************************************************************)
(* The calling thread.                                                     *)
(***************************************************************************)
callLocals == <<call, popped, captured, cidx, cfail, csent, started>>

BeginCall(c, first) ==
    /\ cpc = "idle"
    /\ call' = c
    /\ cpc' = first
    /\ raised' = None
    /\ UNCHANGED <<popped, captured, cidx, cfail, csent, started>>

\* the operation returns (by raising e when e is not None): its locals are gone
Return(e) ==
    /\ cpc' = "idle"
    /\ call' = NoCall
    /\ popped' = NoSub /\ captured' = <<>> /\ cidx' = 0
    /\ cfail' = FALSE /\ csent' = <<>> /\ started' = FALSE
    /\ raised' = e

Step(next) == cpc' = next /\ UNCHANGED raised

\* login() called by the user
Login(o) ==
    /\ cpc = "idle"
    /\ LET r == LoginResult(cst, xst, o)
       IN  cst' = r.cst /\ xst' = r.xst
    /\ UNCHANGED <<subs, ws_thread, ws_connection, stop_event, ping_stop_event, attempts,
                   status, ping_thread, orphans>>
    /\ UNCHANGED <<thrVars, callVars, desired, stopRequested>>

\* the user calls subscribe_to_epic_data(epic, data_type, callback, resolution, bar_type)
CallSubscribe(s, cb) ==
    /\ BeginCall([op |-> "subscribe", s |-> s, callback |-> cb], "sub_upsert")
    /\ stopRequested' = FALSE
    /\ UNCHANGED <<apiVars, thrVars, desired>>

\* a subscribe that stores the record without looking at its arguments (faulty variant
\* of SubUpsert)
SubUpsertUnchecked ==
    /\ cpc = "sub_upsert"
    /\ IF ~TokensPresent
       THEN Return(None) /\ UNCHANGED <<subs, desired>>
       ELSE /\ subs' = RegSet(subs, [SubInfo([call.s EXCEPT !.resolution = "MINUTE_5"],
                                             call.callback)
                                        EXCEPT !.resolution = call.s.resolution])
            /\ UNCHANGED desired
            /\ Step("sub_start")
            /\ UNCHANGED callLocals
    /\ UNCHANGED <<cst, xst, ws_thread, ws_connection, stop_event, ping_stop_event,
                   attempts, status, ping_thread, orphans>>
    /\ HasLock(Main) /\ Release
    /\ UNCHANGED <<thrVars, calls, fails, now, ping_run, bare_reads, req, stopRequested>>

\* subscribe_to_epic_data: token check, key, upsert under the lock
SubUpsert ==
    /\ cpc = "sub_upsert"
    /\ IF ~TokensPresent
       THEN Return(None) /\ UNCHANGED <<subs, desired>>
       ELSE IF ~ValidArgs(call.s)
            THEN Return("ValueError") /\ UNCHANGED <<subs, desired>>
            ELSE /\ subs' = RegSet(subs, SubInfo(call.s, call.callback))
                 /\ desired' = [desired EXCEPT ![call.s] = call.callback]
                 /\ Step("sub_start")
                 /\ UNCHANGED callLocals
    /\ UNCHANGED <<cst, xst, ws_thread, ws_connection, stop_event, ping_stop_event,
                   attempts, status, ping_thread, orphans>>
    /\ HasLock(Main) /\ Release
    /\ UNCHANGED <<thrVars, calls, fails, now, ping_run, bare_reads, req, stopRequested>>

FreeThreads == {t \in Threads : pc[t] \in {"idle", "done"}}

\* whether _start_websocket_thread returns without starting anything
StartIsNoOp == Alive(ws_thread) /\ status = CONNECTED

\* _start_websocket_thread, called by subscribe_to_epic_data
\* a start that leaves the reconnect counter as it finds it (faulty variant of SubStart)
SubStartKeepsCounter ==
    /\ cpc = "sub_start"
    /\ IF StartIsNoOp
       THEN UNCHANGED <<stop_event, ping_stop_event, status, ws_thread, pc,
                        consec, fatal, started>>
       ELSE /\ FreeThreads # {}
            /\ LET t == CHOOSE x \in FreeThreads : \A y \in FreeThreads : x <= y
               IN  /\ ws_thread' = t
                   /\ pc' = [pc EXCEPT ![t] = "start"]
                   /\ consec' = [consec EXCEPT ![t] = 0]
                   /\ fatal' = [fatal EXCEPT ![t] = FALSE]
            /\ stop_event' = FALSE
            /\ ping_stop_event' = FALSE
            /\ status' = CONNECTING
            /\ started' = TRUE
    /\ Step("sub_send")
    /\ UNCHANGED <<cst, xst, subs, ws_connection, ping_thread, orphans, attempts>>
    /\ UNCHANGED <<conn, snap, idx, ofail, delay, slept, wire, rx>>
    /\ UNCHANGED <<call, popped, captured, cidx, cfail, csent, envVars>>

SubStart ==
    /\ cpc = "sub_start"
    /\ IF StartIsNoOp
       THEN UNCHANGED <<stop_event, ping_stop_event, attempts, status, ws_thread, pc,
                        consec, fatal, started>>
       ELSE /\ FreeThreads # {}
            /\ LET t == CHOOSE x \in FreeThreads : \A y \in FreeThreads : x <= y
               IN  /\ ws_thread' = t
                   /\ pc' = [pc EXCEPT ![t] = "start"]
                   /\ consec' = [consec EXCEPT ![t] = 0]
                   /\ fatal' = [fatal EXCEPT ![t] = FALSE]
            /\ stop_event' = FALSE
            /\ ping_stop_event' = FALSE
            /\ attempts' = 0
            /\ status' = CONNECTING
            /\ started' = TRUE
    /\ Step("sub_send")
    /\ UNCHANGED <<cst, xst, subs, ws_connection, ping_thread, orphans>>
    /\ UNCHANGED <<conn, snap, idx, ofail, delay, slept, wire, rx>>
    /\ UNCHANGED <<call, popped, captured, cidx, cfail, csent, envVars>>

\* a send by the calling thread on self.ws_connection: written, or raises and is logged
CallerSend(msg, cid) ==
    IF CanSend(ws_connection)
    THEN /\ wire' = Sent(wire, ws_connection, msg, cid, call.op, started)
         /\ csent' = Append(csent, msg)
         /\ UNCHANGED cfail
    ELSE cfail' = TRUE /\ UNCHANGED <<wire, csent>>

\* a subscribe that always leaves the frame to the next on_open (faulty variant of
\* SubSendsNow)
SubSendsNever == status = CONNECTED /\ ws_connection # 0 /\ status = CONNECTING

\* subscribe_to_epic_data: whether the frame is sent at once
SubSendsNow == status = CONNECTED /\ ws_connection # 0

\* subscribe_to_epic_data: the immediate send when CONNECTED
SubSend ==
    /\ cpc = "sub_send"
    /\ IF SubSendsNow
       THEN wire' = (IF CanSend(ws_connection)
                     THEN Sent(wire, ws_connection, SubscribeMsg(call.s),
                               SubId(call.s, now), call.op, started)
                     ELSE wire)
       ELSE UNCHANGED wire
    /\ Return(None)
    /\ UNCHANGED <<apiVars, envVars>>
    /\ UNCHANGED <<pc, conn, snap, idx, ofail, delay, slept, rx, consec, fatal>>

\* the user calls unsubscribe_from_epic_data(epic, data_type, resolution, bar_type)
CallUnsubscribe(s) ==
    /\ BeginCall([op |-> "unsubscribe", s |-> s], "unsub_pop")
    /\ UNCHANGED <<apiVars, thrVars, desired, stopRequested>>

\* unsubscribe_from_epic_data: key, pop under the lock
UnsubPop ==
    /\ cpc = "unsub_pop"
    /\ IF ~ValidArgs(call.s)
       THEN Return("ValueError") /\ UNCHANGED <<subs, desired>>
       ELSE /\ popped' = RegGet(subs, StreamKey(call.s))
            /\ subs' = RegPop(subs, StreamKey(call.s))
            /\ desired' = [desired EXCEPT ![call.s] = None]
            /\ Step("unsub_send")
            /\ UNCHANGED <<call, captured, cidx, cfail, csent, started>>
    /\ UNCHANGED <<cst, xst, ws_thread, ws_connection, stop_event, ping_stop_event,
                   attempts, status, ping_thread, orphans>>
    /\ HasLock(Main) /\ Release
    /\ UNCHANGED <<thrVars, calls, fails, now, ping_run, bare_reads, req, stopRequested>>

\* unsubscribe_from_epic_data: whether an unsubscribe frame is sent
UnsubSendsNow ==
    popped # NoSub /\ status = CONNECTED /\ ws_connection # 0 /\ TokensPresent

\* unsubscribe_from_epic_data: the unsubscribe frame when a record was removed
UnsubSend ==
    /\ cpc = "unsub_send"
    /\ IF UnsubSendsNow
       THEN CallerSend(UnsubscribeMsg(call.s), UnsubId(call.s, now))
       ELSE UNCHANGED <<wire, cfail, csent>>
    /\ Step("unsub_check")
    /\ UNCHANGED <<apiVars, envVars>>
    /\ UNCHANGED <<pc, conn, snap, idx, ofail, delay, slept, rx, consec, fatal>>
    /\ UNCHANGED <<call, popped, captured, cidx, started>>

\* unsubscribe_from_epic_data: whether the supervisor is to be stopped
UnsubStops == subs = <<>> /\ status # DISCONNECTED /\ status # STOPPING

\* unsubscribe_from_epic_data: stop the supervisor when nothing is left
UnsubCheck ==
    /\ cpc = "unsub_check"
    /\ IF UnsubStops
       THEN Step("stop_req") /\ UNCHANGED callLocals
       ELSE Return(None)
    /\ HasLock(Main) /\ Release
    /\ UNCHANGED <<apiVars, thrVars>>
    /\ UNCHANGED <<calls, fails, now, ping_run, bare_reads, req, desired, stopRequested>>

\* the user calls stop_all_websocket_subscriptions()
CallStopAll ==
    /\ BeginCall([op |-> "stop_all"], "all_clear")
    /\ UNCHANGED <<apiVars, thrVars, desired, stopRequested>>

\* stop_all_websocket_subscriptions: capture and clear under the lock
AllClear ==
    /\ cpc = "all_clear"
    /\ captured' = [i \in DOMAIN subs |-> CapturedItem(subs[i])]
    /\ subs' = <<>>
    /\ cidx' = 1
    /\ Step("all_check")
    /\ UNCHANGED <<cst, xst, ws_thread, ws_connection, stop_event, ping_stop_event,
                   attempts, status, ping_thread, orphans>>
    /\ desired' = [s \in ValidStreams |-> None]
    /\ UNCHANGED <<call, popped, cfail, csent, started>>
    /\ HasLock(Main) /\ Release
    /\ UNCHANGED <<thrVars, calls, fails, now, ping_run, bare_reads, req, stopRequested>>

\* stop_all_websocket_subscriptions: whether unsubscribe frames are sent
AllSends == status = CONNECTED /\ ws_connection # 0 /\ TokensPresent

AllCheck ==
    /\ cpc = "all_check"
    /\ Step(IF AllSends /\ captured # <<>> THEN "all_send" ELSE "stop_req")
    /\ UNCHANGED <<apiVars, thrVars, envVars, callLocals>>

\* stop_all_websocket_subscriptions: one iteration of the send loop
AllSend ==
    /\ cpc = "all_send"
    /\ LET msg == UnsubAllMsg(captured[cidx])
       IN  IF msg = NoMsg
           THEN UNCHANGED <<wire, cfail, csent>>
           ELSE CallerSend(msg, UnsubAllId(captured[cidx], now))
    /\ cidx' = cidx + 1
    /\ Step(IF cidx = Len(captured) THEN "stop_req" ELSE "all_send")
    /\ UNCHANGED <<apiVars, envVars>>
    /\ UNCHANGED <<pc, conn, snap, idx, ofail, delay, slept, rx, consec, fatal>>
    /\ UNCHANGED <<call, popped, captured, started>>

\* _stop_websocket_thread: whether it takes the "already stopped" return
StopIsNoOp == status = DISCONNECTED /\ ~Alive(ws_thread)

\* _stop_websocket_thread: up to the close of the live connection
StopRequest ==
    /\ cpc = "stop_req"
    /\ IF StopIsNoOp
       THEN /\ ping_stop_event' = (IF ping_thread = "alive" THEN TRUE ELSE ping_stop_event)
            /\ orphans' = Tickers
            /\ ping_thread' = "none"
            /\ Return(None)
            /\ UNCHANGED <<status, stop_event, conn, stopRequested>>
       ELSE /\ status' = STOPPING
            /\ stop_event' = TRUE
            /\ ping_stop_event' = TRUE
            /\ conn' = Closed(conn, ws_connection)
            /\ stopRequested' = TRUE
            /\ Step("stop_join")
            /\ UNCHANGED <<ping_thread, orphans, callLocals>>
    /\ UNCHANGED <<cst, xst, subs, ws_thread, ws_connection, attempts>>
    /\ UNCHANGED <<pc, snap, idx, ofail, delay, slept, wire, rx, consec, fatal>>
    /\ UNCHANGED <<calls, fails, now, ping_run, bare_reads, req, ws_lock, desired>>

\* _stop_websocket_thread: ws_thread.join(timeout=15) returns, the thread has ended
StopJoined ==
    /\ cpc = "stop_join"
    /\ ~Alive(ws_thread)
    /\ Step("stop_fin")
    /\ UNCHANGED <<apiVars, thrVars, envVars, callLocals>>

\* a join without a timeout: the call waits for as long as the thread lives (faulty
\* variant of StopJoinTimeout)
StopJoinBlocks ==
    /\ cpc = "stop_join"
    /\ Alive(ws_thread) /\ ~Alive(ws_thread)
    /\ Step("stop_fin")
    /\ UNCHANGED <<apiVars, thrVars, envVars, callLocals>>

\* _stop_websocket_thread: ws_thread.join(timeout=15) times out, the thread lives on
StopJoinTimeout ==
    /\ cpc = "stop_join"
    /\ Alive(ws_thread)
    /\ Step("stop_fin")
    /\ UNCHANGED <<apiVars, thrVars, envVars, callLocals>>

\* _stop_websocket_thread: the bounded wait for the ticker, then the fields are cleared
StopFinish ==
    /\ cpc = "stop_fin"
    /\ ws_thread' = 0
    /\ ws_connection' = 0
    /\ orphans' = Tickers
    /\ ping_thread' = "none"
    /\ status' = DISCONNECTED
    /\ Return(None)
    /\ UNCHANGED <<cst, xst, subs, stop_event, ping_stop_event, attempts>>
    /\ UNCHANGED <<thrVars, envVars>>

(***************************************************************************)
(* A supervisor thread: _ws_run and the transport callbacks it runs.       *)
(***************************************************************************)
Goto(t, l) == pc' = [pc EXCEPT ![t] = l]

\* _ws_run: the first assignment
WsRunStart(t) ==
    /\ pc[t] = "start"
    /\ status' = CONNECTING
    /\ Goto(t, "loop")
    /\ UNCHANGED <<cst, xst, subs, ws_thread, ws_connection, stop_event, ping_stop_event,
                   attempts, ping_thread, orphans>>
    /\ UNCHANGED <<conn, snap, idx, ofail, delay, slept, wire, rx, consec, fatal>>
    /\ UNCHANGED <<callVars, envVars>>

\* _ws_run: the loop condition
WsRunLoop(t) ==
    /\ pc[t] = "loop"
    /\ Goto(t, IF stop_event THEN "exit" ELSE "url")
    /\ UNCHANGED <<apiVars, callVars, envVars>>
    /\ UNCHANGED <<conn, snap, idx, ofail, delay, slept, wire, rx, consec, fatal>>

\* whether _get_ws_url calls login()
NeedsLogin == ~cst \/ ~xst

\* a supervisor that treats a failed re-login like a failed connection and goes on to
\* its backoff (faulty variant of WsRunGetUrl)
WsRunGetUrlRetries(t) ==
    /\ pc[t] = "url"
    /\ IF NeedsLogin
       THEN \E o \in LoginOutcomes :
              LET r == LoginResult(cst, xst, o)
              IN  /\ cst' = r.cst /\ xst' = r.xst
                  /\ Goto(t, IF r.ok THEN "connect" ELSE "retry")
       ELSE Goto(t, "connect") /\ UNCHANGED <<cst, xst>>
    /\ UNCHANGED <<subs, ws_thread, ws_connection, ping_stop_event, attempts, status,
                   ping_thread, orphans, stop_event>>
    /\ UNCHANGED <<conn, snap, idx, ofail, delay, slept, wire, rx, consec, fatal>>
    /\ UNCHANGED <<callVars, envVars>>

\* _ws_run: _get_ws_url(), and the handler of the CapitalComAPIError it raises
WsRunGetUrl(t) ==
    /\ pc[t] = "url"
    /\ IF NeedsLogin
       THEN \E o \in LoginOutcomes :
              LET r == LoginResult(cst, xst, o)
              IN  /\ cst' = r.cst /\ xst' = r.xst
                  /\ IF r.ok
                     THEN Goto(t, "connect") /\ UNCHANGED stop_event
                     ELSE Goto(t, "exit") /\ stop_event' = TRUE
       ELSE Goto(t, "connect") /\ UNCHANGED <<cst, xst, stop_event>>
    /\ UNCHANGED <<subs, ws_thread, ws_connection, ping_stop_event, attempts, status,
                   ping_thread, orphans>>
    /\ UNCHANGED <<conn, snap, idx, ofail, delay, slept, wire, rx, consec, fatal>>
    /\ UNCHANGED <<callVars, envVars>>

\* _ws_run: a new WebSocketApp is assigned and run_forever starts connecting
WsRunConnect(t) ==
    /\ pc[t] = "connect"
    /\ status' = CONNECTING
    /\ ws_connection' = t
    /\ conn' = [conn EXCEPT ![t] = "connecting"]
    /\ wire' = [wire EXCEPT ![t] = <<>>]
    /\ Goto(t, "run_forever")
    /\ UNCHANGED <<cst, xst, subs, ws_thread, stop_event, ping_stop_event, attempts,
                   ping_thread, orphans>>
    /\ UNCHANGED <<snap, idx, ofail, delay, slept, rx, consec, fatal>>
    /\ UNCHANGED <<callVars, envVars>>

\* run_forever: the connection attempt fails; _ws_on_error logs, _ws_on_close follows
TransportFail(t) ==
    /\ pc[t] = "run_forever"
    /\ conn[t] = "connecting"
    /\ conn' = [conn EXCEPT ![t] = "closed"]
    /\ consec' = [consec EXCEPT ![t] = @ + 1]
    /\ Goto(t, "on_close")
    /\ UNCHANGED <<apiVars, callVars, desired, stopRequested>>
    /\ UNCHANGED <<snap, idx, ofail, delay, slept, wire, rx, fatal>>

\* run_forever: the open connection is dropped by the server or the network
TransportDrop(t) ==
    /\ pc[t] = "running"
    /\ conn[t] = "open"
    /\ conn' = [conn EXCEPT ![t] = "closed"]
    /\ consec' = [consec EXCEPT ![t] = @ + 1]
    /\ Goto(t, "on_close")
    /\ UNCHANGED <<apiVars, callVars, desired, stopRequested>>
    /\ UNCHANGED <<snap, idx, ofail, delay, slept, wire, rx, fatal>>

\* run_forever: close() was called on the connection, the loop ends
TransportClosed(t) ==
    /\ pc[t] \in {"run_forever", "running"}
    /\ conn[t] = "closing"
    /\ conn' = [conn EXCEPT ![t] = "closed"]
    /\ consec' = [consec EXCEPT ![t] = @ + 1]
    /\ Goto(t, "on_close")
    /\ UNCHANGED <<apiVars, callVars, envVars>>
    /\ UNCHANGED <<snap, idx, ofail, delay, slept, wire, rx, fatal>>

\* _ws_on_open: status, counter, token check, ticker start
WsOnOpen(t) ==
    /\ pc[t] = "run_forever"
    /\ conn[t] = "connecting"
    /\ status' = CONNECTED
    /\ attempts' = 0
    /\ consec' = [consec EXCEPT ![t] = 0]
    /\ ofail' = [ofail EXCEPT ![t] = FALSE]
    /\ snap' = [snap EXCEPT ![t] = <<>>]
    /\ idx' = [idx EXCEPT ![t] = 0]
    /\ IF ~cst \/ ~xst
       THEN /\ stop_event' = TRUE
            /\ conn' = Closed([conn EXCEPT ![t] = "open"], ws_connection)
            /\ Goto(t, "running")
            /\ UNCHANGED <<ping_stop_event, ping_thread, orphans>>
       ELSE /\ Tickers < MaxTickers
            /\ conn' = [conn EXCEPT ![t] = "open"]
            /\ ping_stop_event' = FALSE
            /\ orphans' = Tickers
            /\ ping_thread' = "alive"
            /\ Goto(t, "on_open_snap")
            /\ UNCHANGED stop_event
    /\ UNCHANGED <<cst, xst, subs, ws_thread, ws_connection>>
    /\ UNCHANGED <<delay, slept, wire, rx, fatal>>
    /\ UNCHANGED <<callVars, envVars>>

\* a resubscription that iterates the registry itself and keeps the lock while it sends
\* (faulty variant of WsOnOpenSnapshot)
WsOnOpenSnapshotLive(t) ==
    /\ pc[t] = "on_open_snap"
    /\ snap' = [snap EXCEPT ![t] = subs]
    /\ idx' = [idx EXCEPT ![t] = 1]
    /\ Goto(t, IF subs = <<>> THEN "running" ELSE "on_open_send")
    /\ HasLock(t) /\ ws_lock' = (IF subs = <<>> THEN 0 ELSE t)
    /\ UNCHANGED <<apiVars, callVars>>
    /\ UNCHANGED <<calls, fails, now, ping_run, bare_reads, req, desired, stopRequested>>
    /\ UNCHANGED <<conn, ofail, delay, slept, wire, rx, consec, fatal>>

\* _ws_on_open: the copy of the registry taken under the lock
WsOnOpenSnapshot(t) ==
    /\ pc[t] = "on_open_snap"
    /\ snap' = [snap EXCEPT ![t] = subs]
    /\ idx' = [idx EXCEPT ![t] = 1]
    /\ Goto(t, IF subs = <<>> THEN "running" ELSE "on_open_send")
    /\ HasLock(t) /\ Release
    /\ UNCHANGED <<apiVars, callVars>>
    /\ UNCHANGED <<calls, fails, now, ping_run, bare_reads, req, desired, stopRequested>>
    /\ UNCHANGED <<conn, ofail, delay, slept, wire, rx, consec, fatal>>

\* a resubscription loop that ends at the first send that raises (faulty variant of
\* WsOnOpenSend)
WsOnOpenSendAborts(t) ==
    /\ pc[t] = "on_open_send"
    /\ LET msg == ResubscribeMsg(snap[t][idx[t]])
       IN  IF msg = NoMsg
           THEN /\ UNCHANGED <<wire, ofail>>
                /\ Goto(t, IF idx[t] = Len(snap[t]) THEN "running" ELSE "on_open_send")
           ELSE IF CanSend(t)
                THEN /\ wire' = Sent(wire, t, msg, ReopenId(snap[t][idx[t]], now),
                                       "on_open", FALSE)
                     /\ UNCHANGED ofail
                     /\ Goto(t, IF idx[t] = Len(snap[t]) THEN "running" ELSE "on_open_send")
                ELSE /\ ofail' = [ofail EXCEPT ![t] = TRUE]
                     /\ UNCHANGED wire
                     /\ Goto(t, "running")
    /\ idx' = [idx EXCEPT ![t] = @ + 1]
    /\ UNCHANGED <<apiVars, callVars, envVars>>
    /\ UNCHANGED <<conn, snap, delay, slept, rx, consec, fatal>>

\* _ws_on_open: one iteration of the resubscription loop
WsOnOpenSend(t) ==
    /\ pc[t] = "on_open_send"
    /\ LET msg == ResubscribeMsg(snap[t][idx[t]])
       IN  IF msg = NoMsg
           THEN UNCHANGED <<wire, ofail>>
           ELSE IF CanSend(t)
                THEN /\ wire' = Sent(wire, t, msg, ReopenId(snap[t][idx[t]], now),
                                       "on_open", FALSE)
                     /\ UNCHANGED ofail
                ELSE /\ ofail' = [ofail EXCEPT ![t] = TRUE]
                     /\ UNCHANGED wire
    /\ idx' = [idx EXCEPT ![t] = @ + 1]
    /\ Goto(t, IF idx[t] = Len(snap[t]) THEN "running" ELSE "on_open_send")
    /\ UNCHANGED <<apiVars, callVars, envVars>>
    /\ UNCHANGED <<conn, snap, delay, slept, rx, consec, fatal>>

\* run_forever: a frame arrives and _ws_on_message is called with it
TransportDeliver(t, message) ==
    /\ pc[t] = "running"
    /\ conn[t] = "open"
    /\ rx' = [rx EXCEPT ![t] = [NoRx EXCEPT !.message = message, !.faults = rx[t].faults]]
    /\ Goto(t, "on_message")
    /\ UNCHANGED <<apiVars, callVars, desired, stopRequested>>
    /\ UNCHANGED <<conn, snap, idx, ofail, delay, slept, wire, consec, fatal>>

\* _ws_on_message: whether the record looked up gets its callback invoked
Dispatches(message, sub_info) ==
    /\ Classify(message) = "data"
    /\ RouteKey(message) # None
    /\ sub_info # NoSub
    /\ sub_info.active
    /\ sub_info.callback # None

\* _ws_on_message: whether the frame got a key and the lookup under the lock found no
\* record; the log line of that branch lists the keys of the registry, read after the
\* lock has been released
LogsKeys(message, sub_info) ==
    /\ Classify(message) = "data"
    /\ RouteKey(message) # None
    /\ sub_info = NoSub

\* _ws_on_message: classification, and the registry lookup under the lock
WsOnMessage(t) ==
    /\ pc[t] = "on_message"
    /\ LET message  == rx[t].message
           sub_info == RegGet(subs, RouteKey(message))
       IN  /\ IF Classify(message) = "auth_failure"
              THEN /\ stop_event' = TRUE
                   /\ conn' = Closed(conn, ws_connection)
                   /\ fatal' = [fatal EXCEPT ![t] = TRUE]
              ELSE UNCHANGED <<stop_event, conn, fatal>>
           /\ IF Dispatches(message, sub_info)
              THEN /\ rx' = [rx EXCEPT ![t].sub_info = sub_info]
                   /\ Goto(t, "callback")
              ELSE /\ UNCHANGED rx
                   /\ Goto(t, "msg_done")
           /\ bare_reads' = IF LogsKeys(message, sub_info)
                            THEN bare_reads \cup {"_ws_on_message"}
                            ELSE bare_reads
    /\ UNCHANGED <<cst, xst, subs, ws_thread, ws_connection, ping_stop_event, attempts,
                   status, ping_thread, orphans>>
    /\ HasLock(t) /\ Release
    /\ UNCHANGED <<snap, idx, ofail, delay, slept, wire, consec>>
    /\ UNCHANGED <<callVars, calls, fails, now, ping_run, req, desired, stopRequested>>

\* a router that lets the exception of a callback out to the transport, which closes
\* the connection (faulty variant of WsCallback)
WsCallbackPropagates(t) ==
    /\ pc[t] = "callback"
    /\ \E raises \in BOOLEAN :
         /\ rx' = [rx EXCEPT ![t].invoked =
                      Append(@, [callback |-> rx[t].sub_info.callback,
                                 payload  |-> rx[t].message.payload,
                                 raised   |-> raises])]
         /\ conn' = IF raises THEN [conn EXCEPT ![t] = "closed"] ELSE conn
         /\ Goto(t, IF raises THEN "on_close" ELSE "msg_done")
    /\ UNCHANGED <<apiVars, callVars, envVars>>
    /\ UNCHANGED <<snap, idx, ofail, delay, slept, wire, consec, fatal>>

\* _ws_on_message: the callback of the record found runs with the payload; it returns
\* or raises, and what it raises is caught and logged
WsCallback(t) ==
    /\ pc[t] = "callback"
    /\ \E raises \in BOOLEAN :
         rx' = [rx EXCEPT ![t].invoked =
                   Append(@, [callback |-> rx[t].sub_info.callback,
                              payload  |-> rx[t].message.payload,
                              raised   |-> raises])]
    /\ Goto(t, "msg_done")
    /\ UNCHANGED <<apiVars, callVars, envVars>>
    /\ UNCHANGED <<conn, snap, idx, ofail, delay, slept, wire, consec, fatal>>

\* _ws_on_message returns to run_forever
WsOnMessageReturn(t) ==
    /\ pc[t] = "msg_done"
    /\ rx' = [rx EXCEPT ![t] =
                 [NoRx EXCEPT !.faults =
                     rx[t].faults \/ \E i \in DOMAIN rx[t].invoked : rx[t].invoked[i].raised]]
    /\ Goto(t, "running")
    /\ UNCHANGED <<apiVars, callVars, envVars>>
    /\ UNCHANGED <<conn, snap, idx, ofail, delay, slept, wire, consec, fatal>>

\* _ws_on_close: the connection field is cleared and the ticker told to stop
WsOnClose(t) ==
    /\ pc[t] = "on_close"
    /\ ws_connection' = 0
    /\ ping_stop_event' = TRUE
    /\ Goto(t, "on_close_join")
    /\ UNCHANGED <<cst, xst, subs, ws_thread, stop_event, attempts, status, ping_thread,
                   orphans>>
    /\ UNCHANGED <<conn, snap, idx, ofail, delay, slept, wire, rx, consec, fatal>>
    /\ UNCHANGED <<callVars, envVars>>

\* _ws_on_close: after the bounded wait for the ticker, the status is written
WsOnCloseFinish(t) ==
    /\ pc[t] = "on_close_join"
    /\ orphans' = Tickers
    /\ ping_thread' = "none"
    /\ status' = DISCONNECTED
    /\ Goto(t, "post")
    /\ UNCHANGED <<cst, xst, subs, ws_thread, ws_connection, stop_event, ping_stop_event,
                   attempts>>
    /\ UNCHANGED <<conn, snap, idx, ofail, delay, slept, wire, rx, consec, fatal>>
    /\ UNCHANGED <<callVars, envVars>>

\* a supervisor that retries without looking at the stop event (faulty variant of
\* WsRunAfterRun)
WsRunAfterRunRetries(t) ==
    /\ pc[t] = "post"
    /\ Goto(t, "retry")
    /\ UNCHANGED <<apiVars, callVars, envVars>>
    /\ UNCHANGED <<conn, snap, idx, ofail, delay, slept, wire, rx, consec, fatal>>

\* _ws_run: the stop check after run_forever has returned
WsRunAfterRun(t) ==
    /\ pc[t] = "post"
    /\ Goto(t, IF stop_event THEN "exit" ELSE "retry")
    /\ UNCHANGED <<apiVars, callVars, envVars>>
    /\ UNCHANGED <<conn, snap, idx, ofail, delay, slept, wire, rx, consec, fatal>>

\* _ws_run: whether another attempt is allowed
MayRetry == attempts < MaxReconnectAttempts

\* _ws_run: the delay is computed and the wait starts, or the attempts are exhausted
WsRunRetry(t) ==
    /\ pc[t] = "retry"
    /\ IF MayRetry
       THEN /\ delay' = [delay EXCEPT ![t] = ReconnectDelay(attempts)]
            /\ slept' = [slept EXCEPT ![t] = 0]
            /\ status' = CONNECTING
            /\ Goto(t, "backoff")
            /\ UNCHANGED stop_event
       ELSE /\ stop_event' = TRUE
            /\ Goto(t, "exit")
            /\ UNCHANGED <<delay, slept, status>>
    /\ UNCHANGED <<cst, xst, subs, ws_thread, ws_connection, ping_stop_event, attempts,
                   ping_thread, orphans>>
    /\ UNCHANGED <<conn, snap, idx, ofail, wire, rx, consec, fatal>>
    /\ UNCHANGED <<callVars, envVars>>

\* _ws_run: whether the wait loop sleeps once more
KeepsWaiting(t) == slept[t] < delay[t] /\ ~stop_event

\* _ws_run: one evaluation of the wait loop's condition, and one sleep
WsRunWait(t) ==
    /\ pc[t] = "backoff"
    /\ IF KeepsWaiting(t)
       THEN slept' = [slept EXCEPT ![t] = @ + WaitInterval] /\ UNCHANGED pc
       ELSE Goto(t, "backoff_end") /\ UNCHANGED slept
    /\ UNCHANGED <<apiVars, callVars, envVars>>
    /\ UNCHANGED <<conn, snap, idx, ofail, delay, wire, rx, consec, fatal>>

\* _ws_run: the stop check after the wait, and the increment of the counter
WsRunWaitEnd(t) ==
    /\ pc[t] = "backoff_end"
    /\ IF stop_event
       THEN Goto(t, "exit") /\ UNCHANGED attempts
       ELSE Goto(t, "loop") /\ attempts' = attempts + 1
    /\ UNCHANGED <<cst, xst, subs, ws_thread, ws_connection, stop_event, ping_stop_event,
                   status, ping_thread, orphans>>
    /\ UNCHANGED <<conn, snap, idx, ofail, delay, slept, wire, rx, consec, fatal>>
    /\ UNCHANGED <<callVars, envVars>>

\* _ws_run: the exit path after the loop
WsRunExit(t) ==
    /\ pc[t] = "exit"
    /\ conn' = [Closed(conn, ws_connection) EXCEPT ![t] = "none"]
    /\ ws_connection' = 0
    /\ ping_stop_event' = TRUE
    /\ orphans' = Tickers
    /\ ping_thread' = "none"
    /\ status' = IF status # STOPPING THEN DISCONNECTED ELSE status
    /\ Goto(t, "done")
    /\ snap' = [snap EXCEPT ![t] = <<>>]
    /\ idx' = [idx EXCEPT ![t] = 0]
    /\ ofail' = [ofail EXCEPT ![t] = FALSE]
    /\ delay' = [delay EXCEPT ![t] = 0]
    /\ slept' = [slept EXCEPT ![t] = 0]
    /\ wire' = [wire EXCEPT ![t] = <<>>]
    /\ rx' = [rx EXCEPT ![t] = NoRx]
    /\ UNCHANGED <<cst, xst, subs, ws_thread, stop_event, attempts>>
    /\ UNCHANGED <<consec, fatal>>
    /\ UNCHANGED <<callVars, envVars>>

(***************************************************************************)
(* The keepalive ticker: _ws_application_ping_run.  Its wait ends either   *)
(* with the stop event set (the loop is left) or with the interval over    *)
(* (a tick).  A tick tests the status, the connection and the tokens, and  *)
(* then builds and sends the frame; nothing is locked, so other threads    *)
(* run between the tests and the send.  Tickers are not told apart: while  *)
(* one is past its tests, one fewer can leave.                             *)
(***************************************************************************)
PingMsg(c, x) == [destination |-> "ping", cst |-> c, securityToken |-> x]

PingId(n) == "app-ping-" \o ToString(n)

\* the tests of a tick
PingTests == status = CONNECTED /\ ws_connection # 0 /\ cst /\ xst

Building == IF ping_run.at = "build" THEN 1 ELSE 0

TickerExit ==
    /\ ping_stop_event
    /\ Tickers > Building
    /\ \/ ping_thread = "alive" /\ ping_thread' = "dead" /\ UNCHANGED orphans
       \/ orphans > 0 /\ orphans' = orphans - 1 /\ UNCHANGED ping_thread
    /\ UNCHANGED <<cst, xst, subs, ws_thread, ws_connection, stop_event, ping_stop_event,
                   attempts, status>>
    /\ UNCHANGED <<thrVars, callVars, envVars>>

\* the wait ends with the stop event clear: the tests of the tick
WsPingTick ==
    /\ ping_run.at = "wait"
    /\ ping_run.n < MaxTicks
    /\ Tickers > 0
    /\ ~ping_stop_event
    /\ ping_run' = [at |-> IF PingTests THEN "build" ELSE "wait", n |-> ping_run.n + 1]
    /\ UNCHANGED <<apiVars, thrVars, callVars, calls, fails, now, bare_reads, req, ws_lock,
                   desired, stopRequested>>

\* the frame is built from the tokens as they are now and sent; a failed send is logged
WsPingSend ==
    /\ ping_run.at = "build"
    /\ ping_run' = [ping_run EXCEPT !.at = "wait"]
    /\ wire' = IF CanSend(ws_connection)
               THEN Sent(wire, ws_connection, PingMsg(cst, xst), PingId(now), "ping", FALSE)
               ELSE wire
    /\ UNCHANGED <<pc, conn, snap, idx, ofail, delay, slept, rx, consec, fatal>>
    /\ UNCHANGED <<apiVars, callVars, calls, fails, now, bare_reads, req, ws_lock, desired,
                   stopRequested>>

(***************************************************************************)
(* Specification Spec: the program from its construction.  The calling     *)
(* thread performs up to MaxCalls operations; the network fails up to      *)
(* MaxFail times; the server sends nothing.                                *)
(***************************************************************************)
Spend(budget) ==
    /\ calls' = IF budget = "calls" THEN calls + 1 ELSE calls
    /\ fails' = IF budget = "fails" THEN fails + 1 ELSE fails
    /\ now' = now
    /\ ping_run' = ping_run
    /\ bare_reads' = bare_reads
    /\ ws_lock' = ws_lock
    /\ req' = req

UserCall ==
    /\ calls < MaxCalls
    /\ Spend("calls")
    /\ \/ \E o \in LoginOutcomes : Login(o)
       \/ \E s \in Streams, cb \in Callbacks : CallSubscribe(s, cb)
       \/ \E s \in Streams : CallUnsubscribe(s)
       \/ CallStopAll

CallerStep ==
    \/ SubUpsert \/ SubStart \/ SubSend
    \/ UnsubPop \/ UnsubSend \/ UnsubCheck
    \/ AllClear \/ AllCheck \/ AllSend
    \/ StopRequest \/ StopJoined \/ StopJoinTimeout \/ StopFinish

RunStep(t) ==
    \/ WsRunStart(t) \/ WsRunLoop(t) \/ WsRunGetUrl(t) \/ WsRunConnect(t)
    \/ WsOnOpen(t) \/ WsOnOpenSnapshot(t) \/ WsOnOpenSend(t)
    \/ TransportClosed(t)
    \/ WsOnClose(t) \/ WsOnCloseFinish(t)
    \/ WsRunAfterRun(t) \/ WsRunRetry(t) \/ WsRunWait(t) \/ WsRunWaitEnd(t)
    \/ WsRunExit(t)

RouterStep(t) == WsOnMessage(t) \/ WsCallback(t) \/ WsOnMessageReturn(t)

NetworkFailure(t) ==
    fails < MaxFail /\ Spend("fails") /\ (TransportFail(t) \/ TransportDrop(t))

Next ==
    \/ UserCall
    \/ CallerStep
    \/ \E t \in Threads : RunStep(t)
    \/ \E t \in Threads : NetworkFailure(t)
    \/ TickerExit

Spec == Init /\ [][Next]_vars

(***************************************************************************)
(* Registries the program can hold: built by subscribe calls.              *)
(***************************************************************************)
RECURSIVE RegOf(_)
RegOf(seq) ==
    IF seq = <<>> THEN <<>>
    ELSE RegSet(RegOf(SubSeq(seq, 1, Len(seq) - 1)),
                SubInfo(seq[Len(seq)][1], seq[Len(seq)][2]))

S_BTC  == Stream("BTCUSD", MARKET, None, CLASSIC)
S_EUR  == Stream("EURUSD", OHLC, "MINUTE_5", CLASSIC)
S_EURH == Stream("EURUSD", OHLC, "MINUTE_5", HEIKIN_ASHI)

\* the callback last subscribed for each stream of a registry
DesiredOf(reg) ==
    [s \in ValidStreams |->
        IF StreamKey(s) \in Keys(reg) THEN RegGet(reg, StreamKey(s)).callback ELSE None]

\* the state once the supervisor started by an earlier subscribe has ended by itself
\* after an authentication failure: the registry keeps its records
Stopped(reg) ==
    /\ cst = TRUE /\ xst = TRUE
    /\ subs = reg
    /\ ws_thread = 1 /\ ws_connection = 0
    /\ stop_event = TRUE /\ ping_stop_event = TRUE
    /\ attempts = 0
    /\ status = DISCONNECTED
    /\ ping_thread = "none" /\ orphans = 0
    /\ ThreadsAt("done", 1, TRUE)
    /\ CallInit
    /\ calls = 0 /\ fails = 0 /\ now = 0 /\ ping_run = NoTick /\ bare_reads = {}
    /\ ws_lock = 0
    /\ req = NoReq
    /\ desired = DesiredOf(reg)
    /\ stopRequested = FALSE

\* the state once the supervisor started by an earlier subscribe has ended by itself
\* after its reconnect attempts were exhausted: the registry keeps its records
Exhausted(reg) ==
    /\ cst = TRUE /\ xst = TRUE
    /\ subs = reg
    /\ ws_thread = 1 /\ ws_connection = 0
    /\ stop_event = TRUE /\ ping_stop_event = TRUE
    /\ attempts = MaxReconnectAttempts
    /\ status = DISCONNECTED
    /\ ping_thread = "none" /\ orphans = 0
    /\ ThreadsAt("done", MaxReconnectAttempts + 1, FALSE)
    /\ CallInit
    /\ calls = 0 /\ fails = 0 /\ now = 0 /\ ping_run = NoTick /\ bare_reads = {}
    /\ ws_lock = 0
    /\ req = NoReq
    /\ desired = DesiredOf(reg)
    /\ stopRequested = FALSE

\* the state once subscribe has started a supervisor and returned
Started(reg) ==
    /\ cst = TRUE /\ xst = TRUE
    /\ subs = reg
    /\ ws_thread = 1 /\ ws_connection = 0
    /\ stop_event = FALSE /\ ping_stop_event = FALSE
    /\ attempts = 0
    /\ status = CONNECTING
    /\ ping_thread = "none" /\ orphans = 0
    /\ ThreadsAt("start", 0, FALSE)
    /\ CallInit
    /\ calls = 0 /\ fails = 0 /\ now = 0 /\ ping_run = NoTick /\ bare_reads = {}
    /\ ws_lock = 0
    /\ req = NoReq
    /\ desired = DesiredOf(reg)
    /\ stopRequested = FALSE

\* the state in which an unsubscribe of the last record returns when the connection
\* attempt of the supervisor fails while the call is between its send and its status
\* check: the registry is empty, and the supervisor is alive and about to retry
Orphaned ==
    /\ cst = TRUE /\ xst = TRUE
    /\ subs = <<>>
    /\ ws_thread = 1 /\ ws_connection = 0
    /\ stop_event = FALSE /\ ping_stop_event = TRUE
    /\ attempts = 0
    /\ status = DISCONNECTED
    /\ ping_thread = "none" /\ orphans = 0
    /\ pc = [t \in Threads |-> IF t = 1 THEN "post" ELSE "idle"]
    /\ conn = [t \in Threads |-> IF t = 1 THEN "closed" ELSE "none"]
    /\ snap = [t \in Threads |-> <<>>]
    /\ idx = [t \in Threads |-> 0]
    /\ ofail = [t \in Threads |-> FALSE]
    /\ delay = [t \in Threads |-> 0]
    /\ slept = [t \in Threads |-> 0]
    /\ wire = [t \in Threads |-> <<>>]
    /\ rx = [t \in Threads |-> NoRx]
    /\ consec = [t \in Threads |-> IF t = 1 THEN 1 ELSE 0]
    /\ fatal = [t \in Threads |-> FALSE]
    /\ CallInit
    /\ calls = 0 /\ fails = 0 /\ now = 0 /\ ping_run = NoTick /\ bare_reads = {}
    /\ ws_lock = 0
    /\ req = NoReq
    /\ desired = DesiredOf(<<>>)
    /\ stopRequested = FALSE

(***************************************************************************)
(* Specification SpecWarm: the calling thread performs up to MaxWarmCalls  *)
(* subscribe, unsubscribe and stop-all operations on a logged-in client    *)
(* that already holds records and whose earlier supervisor has ended.      *)
(***************************************************************************)
WarmRegs ==
    { RegOf(<<>>),
      RegOf(<< <<S_BTC, "cb1">> >>),
      RegOf(<< <<S_EUR, "cb1">>, <<S_BTC, "cb2">> >>) }

InitWarm == \E reg \in WarmRegs : Stopped(reg)

WarmCall ==
    /\ calls < MaxWarmCalls
    /\ Spend("calls")
    /\ \/ \E s \in Streams, cb \in Callbacks : CallSubscribe(s, cb)
       \/ \E s \in Streams : CallUnsubscribe(s)
       \/ CallStopAll

NextWarm ==
    \/ WarmCall
    \/ CallerStep
    \/ \E t \in Threads : RunStep(t)
    \/ \E t \in Threads : NetworkFailure(t)
    \/ TickerExit

SpecWarm == InitWarm /\ [][NextWarm]_vars

(***************************************************************************)
(* Specification SpecOrphan: the calling thread performs up to             *)
(* MaxOrphanCalls subscribe and unsubscribe operations on a logged-in      *)
(* client whose last record was removed while its supervisor kept running. *)
(***************************************************************************)
OrphanCall ==
    /\ calls < MaxOrphanCalls
    /\ Spend("calls")
    /\ \/ \E s \in Streams, cb \in Callbacks : CallSubscribe(s, cb)
       \/ \E s \in Streams : CallUnsubscribe(s)

NextOrphan ==
    \/ OrphanCall
    \/ SubUpsert \/ SubStart \/ SubSend
    \/ UnsubPop \/ UnsubSend \/ UnsubCheck
    \/ StopRequest \/ StopJoined \/ StopJoinTimeout \/ StopFinish
    \/ \E t \in Threads : RunStep(t)
    \/ \E t \in Threads : NetworkFailure(t)
    \/ TickerExit

SpecOrphan == Orphaned /\ [][NextOrphan]_vars

(***************************************************************************)
(* Specification SpecRestart: after the supervisor has given up, the       *)
(* calling thread makes one subscribe call, which starts the supervisor    *)
(* again, over a network that fails without limit.                         *)
(***************************************************************************)
InitRestart == \E reg \in WarmRegs : Exhausted(reg)

RestartCall ==
    /\ calls = 0
    /\ Spend("calls")
    /\ \E s \in Streams, cb \in Callbacks : CallSubscribe(s, cb)

NetworkRestart ==
    /\ Spend("none")
    /\ \/ TransportFail(1)
       \/ TransportDrop(1)

\* the steps of a supervisor when nothing calls close() on its connection
OpenRun(t) ==
    \/ WsRunStart(t) \/ WsRunLoop(t) \/ WsRunGetUrl(t) \/ WsRunConnect(t)
    \/ WsOnOpen(t) \/ WsOnOpenSnapshot(t) \/ WsOnOpenSend(t)
    \/ WsOnClose(t) \/ WsOnCloseFinish(t)
    \/ WsRunAfterRun(t) \/ WsRunRetry(t) \/ WsRunWait(t) \/ WsRunWaitEnd(t)
    \/ WsRunExit(t)

RestartRun == OpenRun(1)

NextRestart ==
    \/ RestartCall
    \/ SubUpsert \/ SubStart \/ SubSend
    \/ RestartRun
    \/ NetworkRestart
    \/ TickerExit

SpecRestart == InitRestart /\ [][NextRestart]_vars

\* the state in which _stop_websocket_thread returns when its join timed out on a
\* supervisor that had just started a backoff wait: the stop signal is set, the fields
\* are cleared, and the supervisor is alive and has not yet looked at the signal
Lingering ==
    /\ cst = TRUE /\ xst = TRUE
    /\ subs = <<>>
    /\ ws_thread = 0 /\ ws_connection = 0
    /\ stop_event = TRUE /\ ping_stop_event = TRUE
    /\ attempts = 0
    /\ status = DISCONNECTED
    /\ ping_thread = "none" /\ orphans = 0
    /\ pc = [t \in Threads |-> IF t = 1 THEN "backoff" ELSE "idle"]
    /\ conn = [t \in Threads |-> IF t = 1 THEN "closed" ELSE "none"]
    /\ snap = [t \in Threads |-> <<>>]
    /\ idx = [t \in Threads |-> 0]
    /\ ofail = [t \in Threads |-> FALSE]
    /\ delay = [t \in Threads |-> IF t = 1 THEN ReconnectDelay(0) ELSE 0]
    /\ slept = [t \in Threads |-> 0]
    /\ wire = [t \in Threads |-> <<>>]
    /\ rx = [t \in Threads |-> NoRx]
    /\ consec = [t \in Threads |-> IF t = 1 THEN 1 ELSE 0]
    /\ fatal = [t \in Threads |-> FALSE]
    /\ CallInit
    /\ calls = 0 /\ fails = 0 /\ now = 0 /\ ping_run = NoTick /\ bare_reads = {}
    /\ ws_lock = 0
    /\ req = NoReq
    /\ desired = DesiredOf(<<>>)
    /\ stopRequested = TRUE

(***************************************************************************)
(* Specification SpecLinger: a stop has returned while the supervisor it    *)
(* signalled is still in its backoff wait; the calling thread makes one    *)
(* subscribe call; connections fail or drop up to MaxFail times.           *)
(***************************************************************************)
LingerCall ==
    /\ calls = 0
    /\ Spend("calls")
    /\ \E s \in Streams, cb \in Callbacks : CallSubscribe(s, cb)

NextLinger ==
    \/ LingerCall
    \/ SubUpsert \/ SubStart \/ SubSend
    \/ \E t \in Threads : OpenRun(t)
    \/ \E t \in Threads : NetworkFailure(t)
    \/ TickerExit

SpecLinger == Lingering /\ [][NextLinger]_vars

(***************************************************************************)
(* Specification SpecPing: one supervisor just started on a registry of    *)
(* one record, the keepalive ticker taking up to MaxTicks ticks, the       *)
(* network failing up to MaxFail times, and one call by the calling        *)
(* thread: a login that fails, or a subscribe.                             *)
(***************************************************************************)
InitPing == Started(RegOf(<< <<S_BTC, "cb1">> >>))

PingCall ==
    /\ calls = 0
    /\ Spend("calls")
    /\ \/ \E o \in {l \in LoginOutcomes : l.kind = "network"} : Login(o)
       \/ \E cb \in Callbacks : CallSubscribe(S_BTC, cb)

NextPing ==
    \/ PingCall
    \/ SubUpsert \/ SubStart \/ SubSend
    \/ \E t \in Threads : OpenRun(t)
    \/ \E t \in Threads : NetworkFailure(t)
    \/ WsPingTick \/ WsPingSend
    \/ TickerExit

SpecPing == InitPing /\ [][NextPing]_vars

(***************************************************************************)
(* Specification SpecLock: one supervisor just started on a registry of    *)
(* one record, frames arriving, the network failing up to MaxFail times    *)
(* and MaxLockCalls calls by the calling thread, with the entry into each  *)
(* with block of _ws_lock a step of its own, so that the lock is seen      *)
(* held while the other threads move.                                      *)
(***************************************************************************)
\* whether the next thing thread me does is to enter a with block of _ws_lock
WantsLock(me) ==
    IF me = Main
    THEN \/ cpc = "sub_upsert" /\ TokensPresent /\ ValidArgs(call.s)
         \/ cpc = "unsub_pop" /\ ValidArgs(call.s)
         \/ cpc = "unsub_check"
         \/ cpc = "all_clear"
    ELSE \/ pc[me] = "on_open_snap"
         \/ /\ pc[me] = "on_message"
            /\ Classify(rx[me].message) = "data"
            /\ RouteKey(rx[me].message) # None

\* the with block of thread me: what it does between taking the lock and releasing it
LockSection(me) ==
    IF me = Main
    THEN SubUpsert \/ UnsubPop \/ UnsubCheck \/ AllClear
    ELSE WsOnOpenSnapshot(me) \/ WsOnMessage(me)

AcquireLock(me) ==
    /\ ws_lock = 0
    /\ WantsLock(me)
    /\ ws_lock' = me
    /\ UNCHANGED <<apiVars, thrVars, callVars>>
    /\ UNCHANGED <<calls, fails, now, ping_run, bare_reads, req, desired, stopRequested>>

LockFrames == {QuoteFrame("BTCUSD")}

InitLock == Started(RegOf(<< <<S_BTC, "cb1">> >>))

LockCall ==
    /\ calls < MaxLockCalls
    /\ Spend("calls")
    /\ \/ \E s \in Streams, cb \in Callbacks : CallSubscribe(s, cb)
       \/ \E s \in Streams : CallUnsubscribe(s)
       \/ CallStopAll

NetworkLock ==
    /\ Spend("none")
    /\ \E t \in Threads, m \in LockFrames : TransportDeliver(t, m)

NextLock ==
    \/ LockCall
    \/ CallerStep
    \/ \E t \in Threads : RunStep(t)
    \/ \E t \in Threads : RouterStep(t)
    \/ \E t \in Threads : NetworkFailure(t)
    \/ NetworkLock
    \/ \E me \in Threads \cup {Main} : AcquireLock(me)
    \/ TickerExit

SpecLock == InitLock /\ [][NextLock]_vars

(***************************************************************************)
(* Specification SpecUnsub: one supervisor just started on a registry of   *)
(* one or two records, frames for one of them arriving, the network        *)
(* failing up to MaxFail times, and one unsubscribe call by the calling    *)
(* thread.                                                                 *)
(***************************************************************************)
UnsubRegs ==
    { RegOf(<< <<S_BTC, "cb1">> >>),
      RegOf(<< <<S_EUR, "cb1">>, <<S_BTC, "cb2">> >>) }

InitUnsub == \E reg \in UnsubRegs : Started(reg)

UnsubCall ==
    /\ calls = 0
    /\ Spend("calls")
    /\ \E s \in Streams : CallUnsubscribe(s)

NextUnsub ==
    \/ UnsubCall
    \/ UnsubPop \/ UnsubSend \/ UnsubCheck
    \/ StopRequest \/ StopJoined \/ StopJoinTimeout \/ StopFinish
    \/ \E t \in Threads : RunStep(t)
    \/ \E t \in Threads : RouterStep(t)
    \/ \E t \in Threads : NetworkFailure(t)
    \/ NetworkLock
    \/ TickerExit

SpecUnsub == InitUnsub /\ [][NextUnsub]_vars

(***************************************************************************)
(* _request: one HTTP call.  The call logs in first when it is to carry    *)
(* the tokens and one is missing, sends the request, and after a 401 logs  *)
(* in again and sends it once more.  login() itself posts through the      *)
(* session, not through _request.                                          *)
(***************************************************************************)
StatusCodes == {200, 401, 500}

\* what session.request gives: a response with a status and token headers, or a
\* network exception
Responses ==
    [kind : {"response"}, status : StatusCodes, hcst : BOOLEAN, hxst : BOOLEAN]
    \cup {[kind |-> "network", status |-> 0, hcst |-> FALSE, hxst |-> FALSE]}

ReqAt(l) == [req EXCEPT !.at = l]

ReqRaise == [req EXCEPT !.at = "done", !.raised = "CapitalComAPIError"]

\* the tokens are left alone by every step of the websocket side
ReqFrame ==
    /\ UNCHANGED <<subs, ws_thread, ws_connection, stop_event, ping_stop_event, attempts,
                   status, ping_thread, orphans>>
    /\ UNCHANGED <<thrVars, callVars>>
    /\ UNCHANGED <<calls, fails, now, ping_run, bare_reads, ws_lock, desired, stopRequested>>

\* _request is called
ReqBegin(add_auth_headers, is_login_retry, endpoint) ==
    /\ req.at \in {"idle", "done"}
    /\ req' = [at |-> "auth", add_auth_headers |-> add_auth_headers,
                is_login_retry |-> is_login_retry, endpoint |-> endpoint,
                sent |-> 0, logins |-> 0, login_ok |-> TRUE, status |-> 0,
                raised |-> None]
    /\ UNCHANGED <<cst, xst>>
    /\ ReqFrame

\* the tokens are looked at, and login() is called when one is missing
ReqAuth ==
    /\ req.at = "auth"
    /\ IF req.add_auth_headers /\ (~cst \/ ~xst)
       THEN IF req.is_login_retry
            THEN req' = ReqRaise /\ UNCHANGED <<cst, xst>>
            ELSE \E o \in LoginOutcomes :
                    LET r == LoginResult(cst, xst, o)
                    IN  /\ cst' = r.cst /\ xst' = r.xst
                        /\ req' = [(IF r.ok THEN ReqAt("send") ELSE ReqRaise)
                                      EXCEPT !.logins = @ + 1, !.login_ok = r.ok]
       ELSE req' = ReqAt("send") /\ UNCHANGED <<cst, xst>>
    /\ ReqFrame

\* session.request, _update_auth_tokens, and the test for a 401
ReqSend ==
    /\ req.at = "send"
    /\ \E resp \in Responses :
         IF resp.kind = "network"
         THEN req' = ReqRaise /\ UNCHANGED <<cst, xst>>
         ELSE /\ IF req.add_auth_headers \/ req.endpoint = "session"
                 THEN cst' = (cst \/ resp.hcst) /\ xst' = (xst \/ resp.hxst)
                 ELSE UNCHANGED <<cst, xst>>
              /\ req' = [req EXCEPT
                            !.sent = @ + 1,
                            !.status = resp.status,
                            !.at = IF /\ resp.status = 401
                                      /\ req.add_auth_headers
                                      /\ ~req.is_login_retry
                                   THEN "relogin" ELSE "check"]
    /\ ReqFrame

\* after a 401: login() again
ReqRelogin ==
    /\ req.at = "relogin"
    /\ \E o \in LoginOutcomes :
         LET r == LoginResult(cst, xst, o)
         IN  /\ cst' = r.cst /\ xst' = r.xst
             /\ req' = [(IF r.ok THEN ReqAt("resend") ELSE ReqRaise)
                           EXCEPT !.logins = @ + 1, !.login_ok = r.ok]
    /\ ReqFrame

\* after a 401 and a login that worked: the request is sent once more
ReqResend ==
    /\ req.at = "resend"
    /\ \E resp \in Responses :
         IF resp.kind = "network"
         THEN req' = ReqRaise /\ UNCHANGED <<cst, xst>>
         ELSE /\ cst' = (cst \/ resp.hcst) /\ xst' = (xst \/ resp.hxst)
              /\ req' = [req EXCEPT !.sent = @ + 1, !.status = resp.status,
                                     !.at = "check"]
    /\ ReqFrame

\* a call that logs in and sends again after every 401 (faulty variant of ReqCheck)
ReqCheckRetries ==
    /\ req.at = "check"
    /\ req' = IF req.status = 401
              THEN ReqAt("relogin")
              ELSE IF req.status >= 400 THEN ReqRaise ELSE ReqAt("done")
    /\ UNCHANGED <<cst, xst>>
    /\ ReqFrame

\* response.raise_for_status() and the return
ReqCheck ==
    /\ req.at = "check"
    /\ req' = IF req.status >= 400 THEN ReqRaise ELSE ReqAt("done")
    /\ UNCHANGED <<cst, xst>>
    /\ ReqFrame

(***************************************************************************)
(* Specification SpecRequest: from construction, _request called again     *)
(* and again with every combination of its flags, the server answering     *)
(* with any status, any token headers or not at all.                       *)
(***************************************************************************)
Endpoints == {"session", "accounts"}

NextRequest ==
    \/ \E a \in BOOLEAN, r \in BOOLEAN, e \in Endpoints : ReqBegin(a, r, e)
    \/ ReqAuth
    \/ ReqSend
    \/ ReqRelogin
    \/ ReqResend
    \/ ReqCheck

SpecRequest == Init /\ [][NextRequest]_vars

\* the state once a second subscribe, made while the first supervisor was still
\* connecting, has started a second supervisor and returned
Doubled(reg) ==
    /\ cst = TRUE /\ xst = TRUE
    /\ subs = reg
    /\ ws_thread = 2 /\ ws_connection = 0
    /\ stop_event = FALSE /\ ping_stop_event = FALSE
    /\ attempts = 0
    /\ status = CONNECTING
    /\ ping_thread = "none" /\ orphans = 0
    /\ pc = [t \in Threads |-> IF t <= 2 THEN "start" ELSE "idle"]
    /\ conn = [t \in Threads |-> "none"]
    /\ snap = [t \in Threads |-> <<>>]
    /\ idx = [t \in Threads |-> 0]
    /\ ofail = [t \in Threads |-> FALSE]
    /\ delay = [t \in Threads |-> 0]
    /\ slept = [t \in Threads |-> 0]
    /\ wire = [t \in Threads |-> <<>>]
    /\ rx = [t \in Threads |-> NoRx]
    /\ consec = [t \in Threads |-> 0]
    /\ fatal = [t \in Threads |-> FALSE]
    /\ CallInit
    /\ calls = 0 /\ fails = 0 /\ now = 0 /\ ping_run = NoTick /\ bare_reads = {}
    /\ ws_lock = 0
    /\ req = NoReq
    /\ desired = DesiredOf(reg)
    /\ stopRequested = FALSE

(***************************************************************************)
(* Specification SpecPair: two supervisors started by two subscribe calls  *)
(* run side by side while the network is down: every connection attempt    *)
(* fails; no public operation is called.                                   *)
(***************************************************************************)
InitPair == Doubled(RegOf(<< <<S_BTC, "cb1">> >>))

\* the steps of a supervisor whose connection never opens
PairRun(t) ==
    \/ WsRunStart(t) \/ WsRunLoop(t) \/ WsRunGetUrl(t) \/ WsRunConnect(t)
    \/ Spend("none") /\ TransportFail(t)
    \/ WsOnClose(t) \/ WsOnCloseFinish(t)
    \/ WsRunAfterRun(t) \/ WsRunRetry(t) \/ WsRunWait(t) \/ WsRunWaitEnd(t)
    \/ WsRunExit(t)

NextPair == \E t \in Threads : PairRun(t)

SpecPair == InitPair /\ [][NextPair]_vars

(***************************************************************************)
(* Specification SpecSup: one supervisor on its own, from the state in     *)
(* which subscribe left it, with a network that fails and a server that    *)
(* sends frames without limit, while the clock moves on; no public         *)
(* operation is called.                                                    *)
(***************************************************************************)
SupStreams == {s \in AllStreams : ValidArgs(s)}

SupRegs ==
    { RegOf(<< <<s, "cb1">> >>) : s \in SupStreams }
    \cup { RegOf(<< <<S_BTC, "cb1">>, <<S_EUR, "cb2">> >>),
           RegOf(<< <<S_EUR, "cb1">>, <<S_EURH, "cb2">>,
                    <<Stream("EURUSD", OHLC, "HOUR", CLASSIC), "cb1">> >>) }

SupFrames ==
    InFrames
    \cup {QuoteFrame(e) : e \in Epics}
    \cup {OhlcFrame(e, Value(r), Value(b)) : e \in Epics, r \in Resolutions, b \in BarTypes}

InitSup == \E reg \in SupRegs : Started(reg)

NetworkSup ==
    /\ Spend("none")
    /\ \/ TransportFail(1)
       \/ TransportDrop(1)
       \/ \E m \in SupFrames : TransportDeliver(1, m)

\* the clock moves on to the next second
Tick ==
    /\ now < MaxClock
    /\ now' = now + 1
    /\ UNCHANGED <<apiVars, thrVars, callVars, calls, fails, ping_run, bare_reads, req, ws_lock,
                   desired, stopRequested>>

NextSup ==
    \/ RunStep(1)
    \/ RouterStep(1)
    \/ NetworkSup
    \/ TickerExit
    \/ Tick

SpecSup == InitSup /\ [][NextSup]_vars

(***************************************************************************)
(* Properties.                                                             *)
(***************************************************************************)

\* C1: the registry holds exactly one record for every stream key whose last
\* registry operation was a subscribe (made while both tokens were present), that
\* record carries the callback of that last subscribe and is active, and it holds
\* no record for a key whose last operation was an unsubscribe or a stop-all.
C1_LastWriterWins ==
    /\ \A i, j \in DOMAIN subs : subs[i].key = subs[j].key => i = j
    /\ Keys(subs) = {StreamKey(s) : s \in {x \in ValidStreams : desired[x] # None}}
    /\ \A s \in ValidStreams :
          desired[s] # None =>
            \E i \in DOMAIN subs :
               /\ subs[i].key = StreamKey(s)
               /\ subs[i].callback = desired[s]
               /\ subs[i].active
               /\ subs[i].epic = s.epic /\ subs[i].data_type = s.data_type
               /\ subs[i].resolution = s.resolution /\ subs[i].bar_type = s.bar_type

\* C1 happens: three calls have returned, the last one a subscribe that replaced the
\* callback of the only record
C1_Witness ==
    /\ cpc = "idle" /\ calls = MaxCalls /\ TokensPresent
    /\ Len(subs) = 1 /\ subs[1].callback = "cb2" /\ subs[1].key = "/market/BTCUSD"
    /\ \E t \in Threads : Len(wire[t]) = 2

\* the frames _ws_on_open has written on the connection of thread t
OnOpenFrames(t) ==
    LET sel == SelectSeq(wire[t], LAMBDA e : e.by = "on_open")
    IN  [i \in DOMAIN sel |-> sel[i].frame]

\* the subscribe frame a record calls for
ExpectedSubscribe(r) ==
    IF r.data_type = MARKET
    THEN [destination |-> "marketData.subscribe", payload |-> [epics |-> <<r.epic>>]]
    ELSE [destination |-> "OHLCMarketData.subscribe",
          payload |-> [epics |-> <<r.epic>>, resolutions |-> <<Value(r.resolution)>>,
                       type |-> Value(r.bar_type)]]

\* C2: on every open (the first or one after a disconnect) with both tokens present
\* and no send failing, _ws_on_open writes one subscribe frame per record of the
\* registry, in registry order, with the record's destination, epic, resolution and
\* bar type, and no other frame.
C2_ResubscribeOnOpen ==
    \A t \in Threads :
       /\ (pc[t] \in {"running", "on_message", "callback", "msg_done"}
              /\ idx[t] > 0 /\ ~ofail[t])
            => OnOpenFrames(t) = [i \in DOMAIN subs |-> ExpectedSubscribe(subs[i])]
       /\ (pc[t] = "on_open_send" /\ ~ofail[t])
            => OnOpenFrames(t) = [i \in 1..(idx[t] - 1) |-> ExpectedSubscribe(subs[i])]

\* C2 happens: after a backoff wait the supervisor has reconnected and resubscribed
\* the three records of the registry
C2_Witness ==
    \E t \in Threads :
       /\ pc[t] = "running" /\ delay[t] > 0 /\ conn[t] = "open"
       /\ Len(subs) = 3 /\ Len(OnOpenFrames(t)) = 3

\* the positions of a supervisor whose latest _ws_on_open has returned
Opened(t) == pc[t] \in {"running", "on_message", "callback", "msg_done"} /\ idx[t] > 0

\* how many times the subscribe frame of record r was written on the connection of
\* thread t by _ws_on_open or by the subscribe call that started the supervisor
StartFrames(t, r) ==
    Cardinality({i \in DOMAIN wire[t] :
                    /\ wire[t][i].frame = ExpectedSubscribe(r)
                    /\ wire[t][i].by = "on_open" \/ wire[t][i].starter})

\* C3: when a subscribe call starts the supervisor, the connection that opens carries
\* exactly one subscribe frame for each record resubscribed, whatever the interleaving
\* of the calling thread and the supervisor: the resubscription of _ws_on_open and
\* the immediate send of subscribe never both write it.
C3_ExactlyOneFrame ==
    \A t \in Threads :
       (Opened(t) /\ ~ofail[t]) =>
          \A i \in DOMAIN snap[t] : StartFrames(t, snap[t][i]) = 1

\* C4: once _stop_websocket_thread has requested a stop and no subscribe call has
\* followed, the status is never CONNECTING or CONNECTED again and no transport is
\* connecting.
C4_NoReconnectAfterStop ==
    stopRequested =>
       /\ status \in {STOPPING, DISCONNECTED}
       /\ \A t \in Threads : conn[t] # "connecting"

\* C5: at most one supervisor thread is alive at any time.
C5_AtMostOneSupervisor == Cardinality({t \in Threads : Alive(t)}) <= 1

\* C6: when unsubscribe has removed the only remaining record while the supervisor
\* thread is alive, it does not return before the supervisor has been told to stop,
\* whatever the status it reads.
C6_LastUnsubscribeStops ==
    [][(/\ cpc = "unsub_check" /\ cpc' = "idle"
        /\ popped # NoSub /\ subs = <<>> /\ Alive(ws_thread))
       => stop_event]_vars

\* the delays before the attempts that follow the first to the tenth consecutive failure
BackoffDelays == <<5, 10, 20, 40, 60, 60, 60, 60, 60, 60>>

\* C7: after its k-th consecutive failure (k = 1..10) the supervisor waits 5, 10, 20,
\* 40, 60, ... 60 seconds and attempts again only when the wait is over; after the
\* eleventh it neither waits nor attempts and ends with the status DISCONNECTED.
C7_BackoffSchedule ==
    \A t \in Threads :
       /\ pc[t] \in {"backoff", "backoff_end"} =>
             /\ consec[t] \in 1..Len(BackoffDelays)
             /\ delay[t] = BackoffDelays[consec[t]]
             /\ slept[t] <= delay[t]
       /\ (pc[t] \in {"loop", "url", "connect", "run_forever"} /\ consec[t] > 0) =>
             /\ consec[t] \in 1..Len(BackoffDelays)
             /\ slept[t] = BackoffDelays[consec[t]]
             /\ attempts = consec[t]
       /\ consec[t] > Len(BackoffDelays) =>
             /\ consec[t] = Len(BackoffDelays) + 1
             /\ pc[t] \in {"on_close", "on_close_join", "post", "retry", "exit", "done"}
       /\ pc[t] = "done" => status = DISCONNECTED

\* C7 happens: the supervisor has ended after its eleventh consecutive failure
C7_Witness ==
    \E t \in Threads :
       pc[t] = "done" /\ consec[t] = 11 /\ attempts = 10 /\ status = DISCONNECTED

\* C8: after an authentication-failure frame the stop event is set, the supervisor
\* makes no further connection attempt and no backoff wait, the reconnect counter
\* keeps its value, and the supervisor ends with the status DISCONNECTED.
C8_AuthFailureIsFatal ==
    \A t \in Threads :
       fatal[t] =>
          /\ stop_event
          /\ attempts = 0
          /\ pc[t] \in {"msg_done", "running", "on_close", "on_close_join", "post",
                         "exit", "done"}
          /\ conn[t] \notin {"connecting", "open"}
          /\ pc[t] = "done" => status = DISCONNECTED

\* C8 happens: the supervisor has ended after an authentication failure
C8_Witness ==
    \E t \in Threads :
       fatal[t] /\ pc[t] = "done" /\ consec[t] = 1 /\ status = DISCONNECTED

\* the unsubscribe frame a captured record calls for
ExpectedUnsubscribe(r) ==
    IF r.data_type = MARKET
    THEN [destination |-> "marketData.unsubscribe", payload |-> [epics |-> <<r.epic>>]]
    ELSE [destination |-> "OHLCMarketData.unsubscribe",
          payload |-> [epics |-> <<r.epic>>, resolutions |-> <<Value(r.resolution)>>,
                       types |-> <<Value(r.bar_type)>>]]

\* stop_all, once the registry is captured: the registry is empty, and the frames
\* written so far are the unsubscribe frames of the captured records handled so far
StopAllSends ==
    (call.op = "stop_all" /\ cpc # "all_clear") =>
       /\ subs = <<>>
       /\ (cpc = "all_send" /\ ~cfail) =>
             csent = [i \in 1..(cidx - 1) |-> ExpectedUnsubscribe(captured[i])]
       /\ (cpc # "all_send" /\ ~cfail /\ cidx = Len(captured) + 1) =>
             csent = [i \in DOMAIN captured |-> ExpectedUnsubscribe(captured[i])]

\* C9: stop_all captures and clears the registry in one step; when it finds the
\* status CONNECTED and no send fails it writes exactly one unsubscribe frame per
\* captured record, with the record's destination, epic, resolution and bar type;
\* it returns only through _stop_websocket_thread, with the registry empty and the
\* status DISCONNECTED.
C9_StopAll ==
    [][/\ StopAllSends'
       /\ (call.op = "stop_all" /\ cpc' = "idle") =>
             /\ cpc \in {"stop_req", "stop_fin"}
             /\ subs' = <<>>
             /\ status' = DISCONNECTED]_vars

\* C9 happens: stop_all, called with two records while CONNECTED, has written two
\* unsubscribe frames and is about to stop the supervisor
C9_Witness ==
    /\ call.op = "stop_all" /\ cpc = "stop_req"
    /\ Len(captured) = 2 /\ Len(csent) = 2 /\ status = CONNECTED

\* the data frame the server sends for the stream of a record
DataFrameOf(r) ==
    IF r.data_type = MARKET
    THEN QuoteFrame(r.epic)
    ELSE OhlcFrame(r.epic, Value(r.resolution), Value(r.bar_type))

\* the key form of a record
KeyForm(r) ==
    IF r.data_type = MARKET
    THEN "/market/" \o r.epic
    ELSE "/ohlc/" \o r.epic \o "/" \o Value(r.resolution) \o "/" \o Value(r.bar_type)

\* C10: the key subscribe stores a record under has the form /market/{epic} or
\* /ohlc/{epic}/{resolution}/{bar type}, and it is the key the router derives from
\* the data frame of that stream: such a frame invokes the record's callback exactly
\* once, with the frame's payload.
C10_KeysAgree ==
    /\ \A i \in DOMAIN subs : subs[i].key = KeyForm(subs[i])
    /\ \A t \in Threads : \A i \in DOMAIN subs :
          (pc[t] = "msg_done" /\ rx[t].message = DataFrameOf(subs[i])) =>
             /\ Len(rx[t].invoked) = 1
             /\ rx[t].invoked[1].callback = subs[i].callback
             /\ rx[t].invoked[1].payload = rx[t].message.payload

\* C10 happens: a heikin-ashi bar has been routed to the callback of its record, in a
\* registry that also holds the classic record of the same epic and resolution
C10_Witness ==
    \E t \in Threads :
       /\ pc[t] = "msg_done"
       /\ rx[t].message = OhlcFrame("EURUSD", "MINUTE_5", "heikin-ashi")
       /\ Len(subs) = 3
       /\ Len(rx[t].invoked) = 1 /\ rx[t].invoked[1].callback = "cb2"

\* C11: a subscribe call with valid arguments does not return before its record is in
\* the registry and a supervisor thread has been started, whatever the status and
\* whether or not the tokens are present.
C11_SubscribeRecords ==
    [][(call.op = "subscribe" /\ ValidArgs(call.s) /\ cpc' = "idle") =>
          /\ RegGet(subs', StreamKey(call.s)) # NoSub
          /\ RegGet(subs', StreamKey(call.s)).callback = call.callback
          /\ ws_thread' # 0]_vars

\* C12: a subscribe call for OHLC data without a resolution ends with a ValueError,
\* and leaves the registry, the status, the reconnect counter, the frames sent and
\* the supervisor threads as they were.
C12_OhlcNeedsResolution ==
    [][(/\ call.op = "subscribe"
        /\ call.s.data_type = OHLC /\ call.s.resolution = None
        /\ cpc' = "idle") =>
          /\ raised' = "ValueError"
          /\ subs' = subs /\ status' = status /\ attempts' = attempts
          /\ wire' = wire /\ pc' = pc /\ ws_thread' = ws_thread]_vars

\* C13: an unsubscribe call whose key has no record raises nothing, sends no frame
\* and leaves the registry, the status, the stop signal and the supervisor alone: no
\* step of the call changes them, and the call does not go on to stop the supervisor.
C13_UnsubscribeAbsentIsNoOp ==
    [][(/\ call.op = "unsubscribe" /\ ValidArgs(call.s)
        /\ \/ cpc = "unsub_pop" /\ RegGet(subs, StreamKey(call.s)) = NoSub
           \/ cpc \in {"unsub_send", "unsub_check"} /\ popped = NoSub
        /\ cpc' # cpc) =>
          /\ subs' = subs /\ status' = status /\ stop_event' = stop_event
          /\ wire' = wire /\ ws_thread' = ws_thread /\ pc' = pc
          /\ cpc' \in {"unsub_send", "unsub_check", "idle"}
          /\ cpc' = "idle" => raised' = None]_vars

\* C14: a data frame whose derived key has no record in the registry invokes no
\* callback and does not end the router abnormally: the router goes from the lookup
\* straight to its return, and no step of it changes the registry, the status, the stop
\* signal or the connection.
C14_UnknownKeyIsDropped ==
    [][\A t \in Threads :
         (/\ pc[t] \in {"on_message", "callback", "msg_done"}
          /\ Classify(rx[t].message) = "data"
          /\ RouteKey(rx[t].message) # None
          /\ RouteKey(rx[t].message) \notin Keys(subs)
          /\ pc'[t] # pc[t]) =>
            /\ pc[t] # "callback"
            /\ pc'[t] = IF pc[t] = "on_message" THEN "msg_done" ELSE "running"
            /\ rx[t].invoked = <<>> /\ rx'[t].invoked = <<>>
            /\ subs' = subs /\ status' = status
            /\ stop_event' = stop_event /\ conn' = conn]_vars

\* C14 happens: a frame for a stream without a record has gone through the router of a
\* client that holds records of other streams
C14_Witness ==
    \E t \in Threads :
       /\ pc[t] = "msg_done"
       /\ Classify(rx[t].message) = "data"
       /\ RouteKey(rx[t].message) # None
       /\ RouteKey(rx[t].message) \notin Keys(subs)
       /\ subs # <<>>
       /\ rx[t].invoked = <<>>

\* C15: when a subscriber callback raises, the router catches it: the callback step
\* and the return of the router leave the status, the stop signal, the registry and the
\* connection as they were and hand control back to the transport, and every data
\* frame that arrives after a callback has raised is still routed to the callback of
\* its record.
C15_CallbackFailureIsIsolated ==
    [][\A t \in Threads :
         /\ (pc[t] \in {"callback", "msg_done"} /\ pc'[t] # pc[t]) =>
               /\ pc'[t] = IF pc[t] = "callback" THEN "msg_done" ELSE "running"
               /\ status' = status /\ stop_event' = stop_event
               /\ subs' = subs /\ conn' = conn
         /\ \A i \in DOMAIN subs' :
               (/\ pc'[t] = "msg_done" /\ rx'[t].faults
                /\ rx'[t].message = DataFrameOf(subs'[i])) =>
                  /\ Len(rx'[t].invoked) = 1
                  /\ rx'[t].invoked[1].callback = subs'[i].callback
                  /\ rx'[t].invoked[1].payload = rx'[t].message.payload]_vars

\* C15 happens: after a callback raised, a later frame has been routed to the callback
\* of its record, on a connection that is still open and CONNECTED
C15_Witness ==
    \E t \in Threads : \E i \in DOMAIN subs :
       /\ pc[t] = "msg_done" /\ rx[t].faults
       /\ rx[t].message = DataFrameOf(subs[i])
       /\ Len(subs) > 1
       /\ Len(rx[t].invoked) = 1 /\ rx[t].invoked[1].callback = subs[i].callback
       /\ status = CONNECTED /\ conn[t] = "open" /\ ~stop_event

\* C16: once the reconnect attempts are exhausted the supervisor has ended with the
\* status DISCONNECTED and the stop signal set, and it makes no connection attempt until
\* it is started again; the start by subscribe sets the reconnect counter to 0, clears
\* the stop signal and sets the status CONNECTING; the supervisor started again follows
\* the backoff schedule from its beginning and ends only after ten more attempts.
C16_RestartAfterExhaustion ==
    [][\A t \in Threads :
         /\ pc[t] = "done" =>
               /\ consec[t] = MaxReconnectAttempts + 1
               /\ attempts = MaxReconnectAttempts
               /\ status = DISCONNECTED /\ stop_event
               /\ ws_connection = 0 /\ conn[t] = "none"
               /\ pc'[t] \in {"done", "start"}
         /\ (pc[t] = "done" /\ pc'[t] = "start") =>
               /\ cpc = "sub_start"
               /\ attempts' = 0 /\ ~stop_event' /\ status' = CONNECTING
         /\ pc[t] \in {"backoff", "backoff_end"} =>
               /\ attempts = consec[t] - 1
               /\ attempts < MaxReconnectAttempts
               /\ delay[t] = BackoffDelays[consec[t]]
         /\ pc[t] = "exit" => consec[t] = MaxReconnectAttempts + 1]_vars

\* C16 happens: the supervisor started again after an exhaustion has used up ten more
\* attempts and ended
C16_Witness ==
    /\ calls = 1 /\ cpc = "idle" /\ raised = None
    /\ \E i \in DOMAIN subs : subs[i].callback = "cb2" /\ subs[i].epic = "EURUSD"
    /\ pc[1] = "done" /\ consec[1] = MaxReconnectAttempts + 1
    /\ attempts = MaxReconnectAttempts /\ status = DISCONNECTED

\* the steps of _stop_websocket_thread
StopSteps == StopRequest \/ StopJoined \/ StopJoinTimeout \/ StopFinish

C18_CorrelationIdsDiffer ==
    \A t \in Threads : \A i, j \in DOMAIN wire[t] :
       i # j => wire[t][i].correlationId # wire[t][j].correlationId

\* the records whose subscribe call is still between its upsert and its return
InFlight(r) == cpc \in {"sub_start", "sub_send"} /\ r.key = StreamKey(call.s)

\* C19: whenever the status is CONNECTED, _ws_on_open has returned on the current
\* connection, that connection is open and no send of _ws_on_open failed, the
\* connection carries a subscribe frame for every record of the registry whose
\* subscribe call has returned, whatever the interleaving of the calls with on_open.
C19_EveryRecordSent ==
    \A t \in Threads :
       (/\ status = CONNECTED /\ ws_connection = t
        /\ Opened(t) /\ conn[t] = "open" /\ ~ofail[t]) =>
          \A i \in DOMAIN subs :
             \/ InFlight(subs[i])
             \/ \E j \in DOMAIN wire[t] : wire[t][j].frame = ExpectedSubscribe(subs[i])

\* C19 happens: on an open connection one record was resubscribed by _ws_on_open and
\* another, inserted after the open, was sent by its subscribe call
C19_Witness ==
    \E t \in Threads :
       /\ status = CONNECTED /\ ws_connection = t
       /\ Opened(t) /\ conn[t] = "open" /\ ~ofail[t]
       /\ cpc = "idle" /\ Len(subs) = 2
       /\ Len(snap[t]) = 1
       /\ \E j \in DOMAIN wire[t] :
             wire[t][j].by = "on_open" /\ wire[t][j].frame = ExpectedSubscribe(subs[1])
       /\ \E j \in DOMAIN wire[t] :
             wire[t][j].by = "subscribe" /\ wire[t][j].frame = ExpectedSubscribe(subs[2])

\* C20: when the status leaves CONNECTED while attempts remain and no stop is
\* requested, its next value is CONNECTING; and the status is set to DISCONNECTED only
\* when the supervisor is ending (stop signal set, or attempts exhausted).
C20_CloseLeadsToConnecting ==
    [][/\ (/\ status = CONNECTED /\ status' # CONNECTED
           /\ ~stop_event' /\ attempts' < MaxReconnectAttempts) => status' = CONNECTING
       /\ (status # DISCONNECTED /\ status' = DISCONNECTED) =>
             stop_event' \/ attempts' >= MaxReconnectAttempts]_vars

\* C21: the reconnect counter is between 0 and the maximum attempt count in every
\* state, and it is 0 right after every _ws_on_open.
C21_CounterBounded ==
    [][/\ attempts' \in 0..MaxReconnectAttempts
       /\ \A t \in Threads :
             (pc[t] = "run_forever" /\ pc'[t] = "on_open_snap") => attempts' = 0]_vars

\* C22: the start made by a subscribe call while the supervisor thread is alive changes
\* nothing of the supervisor: the reconnect counter, the stop signal, the keepalive
\* stop signal and the status are left as they were.
C22_StartIsIdempotent ==
    [][(cpc = "sub_start" /\ Alive(ws_thread) /\ cpc' # cpc) =>
          /\ attempts' = attempts
          /\ stop_event' = stop_event
          /\ ping_stop_event' = ping_stop_event
          /\ status' = status]_vars

\* C23: at each connection attempt the supervisor logs in again exactly when a token
\* is absent: with both tokens present it goes on to connect with the tokens it has;
\* otherwise it connects only with tokens obtained, and when none can be obtained it
\* opens no transport, sets the stop signal, leaves the reconnect counter alone and
\* goes straight to its exit, without a backoff wait or another attempt, where the
\* status is set to DISCONNECTED.
C23_TokenFailureIsFatal ==
    [][\A t \in Threads :
         /\ (pc[t] = "url" /\ pc'[t] # "url") =>
               /\ pc'[t] \in {"connect", "exit"}
               /\ ~NeedsLogin => (pc'[t] = "connect" /\ cst' = cst /\ xst' = xst)
               /\ pc'[t] = "connect" => (cst' /\ xst' /\ stop_event' = stop_event)
               /\ pc'[t] = "exit" =>
                     /\ NeedsLogin /\ (~cst' \/ ~xst')
                     /\ stop_event'
                     /\ attempts' = attempts /\ consec' = consec
                     /\ conn' = conn /\ ws_connection' = ws_connection
         /\ (pc[t] = "exit" /\ pc'[t] # "exit") =>
               /\ pc'[t] = "done"
               /\ attempts' = attempts
               /\ status # STOPPING => status' = DISCONNECTED
         /\ (pc[t] = "done" /\ pc'[t] # "done") => cpc = "sub_start"]_vars

\* C23 happens: a supervisor whose tokens were lost has failed to log in again and has
\* ended, with the stop signal set by itself and the status DISCONNECTED
C23_Witness ==
    \E t \in Threads :
       /\ pc[t] = "done" /\ ws_thread = t
       /\ ~TokensPresent /\ stop_event /\ ~stopRequested
       /\ status = DISCONNECTED /\ consec[t] = 1 /\ attempts = 1

\* C24: a supervisor that finds the stop signal set during its backoff wait ends the
\* wait at that check, before the delay has passed, and from there leaves the loop: it
\* does not increment the reconnect counter or make another attempt, and it ends with
\* the status DISCONNECTED.
C24_StopAbortsBackoff ==
    [][\A t \in Threads :
         /\ (pc[t] = "backoff" /\ stop_event /\ pc'[t] # pc[t]) =>
               (pc'[t] = "backoff_end" /\ slept' = slept)
         /\ (pc[t] = "backoff_end" /\ slept[t] < delay[t] /\ pc'[t] # pc[t]) =>
               (pc'[t] = "exit" /\ attempts' = attempts)
         /\ (pc[t] = "exit" /\ pc'[t] # pc[t]) =>
               /\ pc'[t] = "done" /\ attempts' = attempts
               /\ status' \in {DISCONNECTED, STOPPING}]_vars

\* whether a keepalive ticker is running: the thread is alive and not told to stop
TickerRuns == ping_thread = "alive" /\ ~ping_stop_event

\* whether no ticker is left to run: none is referenced, and one that has not ended
\* yet has been told to stop
NoTickerLeft == ping_thread # "alive" /\ (orphans > 0 => ping_stop_event)

\* C25: every step that sets the status CONNECTED starts a keepalive ticker; whenever
\* the status is CONNECTED and _ws_on_open has returned a ticker is running; and when
\* _ws_on_close or _stop_websocket_thread returns no ticker is left to run.
C25_TickerFollowsConnected ==
    [][/\ (status # CONNECTED /\ status' = CONNECTED) => TickerRuns'
       /\ (status' = CONNECTED /\ \E t \in Threads : pc'[t] = "running") => TickerRuns'
       /\ \A t \in Threads :
             (pc[t] = "on_close_join" /\ pc'[t] = "post") =>
                NoTickerLeft'
       /\ (cpc \in {"stop_req", "stop_fin"} /\ cpc' = "idle") => NoTickerLeft']_vars

\* the liveness frames written to the connection of thread t
Pings(w, t) == SelectSeq(w[t], LAMBDA e : e.by = "ping")

\* C26: a step of the keepalive ticker writes a liveness frame only when its tick found
\* the status CONNECTED, a connection and both tokens, the frame it writes has the
\* destination "ping" and carries both tokens, a tick that finds anything else writes
\* nothing, and no step of the ticker changes anything else or ends the ticker.
C26_PingOnlyWhenConnectedWithTokens ==
    [][/\ (ping_run' # ping_run) =>
             /\ UNCHANGED <<apiVars, callVars>>
             /\ UNCHANGED <<pc, conn, snap, idx, ofail, delay, slept, rx, consec, fatal>>
             /\ Tickers' = Tickers
       /\ (ping_run.at = "wait" /\ ping_run' # ping_run) =>
             /\ wire' = wire
             /\ (ping_run'.at = "build") =>
                    status = CONNECTED /\ ws_connection # 0 /\ TokensPresent
       /\ \A t \in Threads :
             Len(Pings(wire', t)) > Len(Pings(wire, t)) =>
                /\ ping_run.at = "build" /\ ping_run'.at = "wait"
                /\ LET e == wire'[t][Len(wire'[t])]
                   IN  /\ e.by = "ping"
                       /\ e.frame.destination = "ping"
                       /\ e.frame.cst /\ e.frame.securityToken]_vars

C26_Witness ==
    /\ ping_run = [at |-> "wait", n |-> 1]
    /\ \E t \in Threads : Len(Pings(wire, t)) = 1

\* C27: each iteration of the resubscription loop of _ws_on_open handles one record and
\* goes on to the next one whatever happened to it: a record without a frame (inactive,
\* OHLC without resolution or bar type, unknown data type) and a record whose send fails
\* leave the connection as it was, every other record gets its subscribe frame
\* written, and the loop ends only after the last record of the snapshot, in run_forever.
C27_ResubscriptionIsPerRecord ==
    [][\A t \in Threads :
          (pc[t] = "on_open_send" /\ idx'[t] # idx[t]) =>
             LET sub_info == snap[t][idx[t]]
                 msg      == ResubscribeMsg(sub_info)
             IN  /\ idx'[t] = idx[t] + 1
                 /\ pc'[t] = IF idx[t] < Len(snap[t]) THEN "on_open_send" ELSE "running"
                 /\ conn'[t] = conn[t]
                 /\ wire'[t] = IF msg # NoMsg /\ conn[t] = "open"
                               THEN Append(wire[t],
                                           [frame |-> msg,
                                            correlationId |-> ReopenId(sub_info, now),
                                            by |-> "on_open", starter |-> FALSE])
                               ELSE wire[t]]_vars

C27_Witness ==
    \E t \in Threads :
       /\ pc[t] = "running"
       /\ Len(snap[t]) = 2
       /\ idx[t] = 3
       /\ ofail[t]
       /\ Len(SelectSeq(wire[t], LAMBDA e : e.by = "on_open")) = 1

\* C28: a frame with an errorCode never gets a callback invoked, whatever destination
\* and payload it carries: _ws_on_message returns straight after looking at the code;
\* and unless the code is the authentication failure, handling the frame leaves the
\* status, the stop signal, the reconnect counter and the registry as they were.
C28_ErrorFrameIsNotRouted ==
    [][\A t \in Threads :
          LET message == rx[t].message
              errored == Get(message, "errorCode", None) # None
          IN  /\ (pc'[t] = "callback" \/ rx'[t].invoked # <<>>) =>
                    Get(rx'[t].message, "errorCode", None) = None
              /\ (pc[t] = "on_message" /\ errored /\ pc'[t] # pc[t]) =>
                    /\ pc'[t] = "msg_done"
                    /\ rx'[t] = rx[t]
                    /\ (message.errorCode # AUTH_FAILURE) =>
                          /\ status' = status
                          /\ stop_event' = stop_event
                          /\ attempts' = attempts
                          /\ subs' = subs
                          /\ conn' = conn]_vars

C28_Witness ==
    /\ pc[1] = "msg_done"
    /\ Get(rx[1].message, "errorCode", None) \notin {None, AUTH_FAILURE}
    /\ RegGet(subs, RouteKey(rx[1].message)) # NoSub
    /\ rx[1].invoked = <<>>
    /\ status = CONNECTED

\* an ohlc.event frame with a symbol whose payload lacks the resolution or the type
IncompleteOhlc(message) ==
    /\ Get(message, "destination", None) = "ohlc.event"
    /\ "payload" \in DOMAIN message
    /\ "epic" \in DOMAIN message.payload
    /\ \/ ~("resolution" \in DOMAIN message.payload)
       \/ ~("type" \in DOMAIN message.payload)

\* C29: an OHLC data frame whose payload lacks the resolution field or the type field
\* is dropped: the router never reaches a callback with it and no callback is invoked
\* for it, whatever records the registry holds.
C29_IncompleteOhlcIsDropped ==
    \A t \in Threads :
       IncompleteOhlc(rx[t].message) => pc[t] # "callback" /\ rx[t].invoked = <<>>

\* C30: no method and no thread reads or changes the registry without holding _ws_lock:
\* no place of the program has made a bare read of it.
C30_RegistryUnderLock == bare_reads = {}

\* C31: whoever holds _ws_lock is inside a with block that only reads or changes the
\* registry: no thread holds it at a callback, at a send or at a join, and the holder
\* can always finish its block and release the lock, so a thread that wants the lock
\* gets it after at most one step of the holder and no deadlock state is reachable.
C31_LockIsNeverHeldAcross ==
    /\ \A t \in Threads :
          ws_lock = t => /\ pc[t] \in {"on_open_snap", "on_message"}
                         /\ ENABLED WsOnOpenSnapshot(t) \/ ENABLED WsOnMessage(t)
    /\ ws_lock = Main =>
          /\ cpc \in {"sub_upsert", "unsub_pop", "unsub_check", "all_clear"}
          /\ ENABLED (SubUpsert \/ UnsubPop \/ UnsubCheck \/ AllClear)
    /\ \A me \in Threads \cup {Main} : (WantsLock(me) /\ ws_lock = 0) => ENABLED AcquireLock(me)

C31_Witness ==
    /\ ws_lock = Main
    /\ cpc = "unsub_pop"
    /\ pc[1] = "callback"
    /\ rx[1].sub_info.key = StreamKey(call.s)

\* C32: at most one keepalive ticker thread has been started and has not yet left its
\* loop, whatever reconnects, stops and restarts have happened.
C32_AtMostOneTicker == Tickers <= 1

\* the stream s has been removed by a call that has returned, and no call has begun
\* since
Removed(s) == cpc = "idle" /\ call = NoCall /\ desired[s] = None

\* C33: once the unsubscribe call for a stream has returned, and as long as no other call
\* has begun, no subscribe frame for that stream is written to any connection; also
\* not by a resubscription loop whose snapshot still holds the record.
C33_NoSubscribeAfterUnsubscribe ==
    [][\A s \in ValidStreams : \A t \in Threads :
          (Removed(s) /\ Len(wire'[t]) > Len(wire[t])) =>
              wire'[t][Len(wire'[t])].frame # SubscribeMsg(s)]_vars

\* C34: once the call that removed a stream has returned, and as long as no other call
\* has begun, the router invokes no callback for the record of that stream, however
\* the call and _ws_on_message were interleaved.
C34_NoCallbackAfterRemoval ==
    [][\A s \in ValidStreams : \A t \in Threads :
          (Removed(s) /\ Len(rx'[t].invoked) > Len(rx[t].invoked)) =>
              rx[t].sub_info.key # StreamKey(s)]_vars

\* C34 as amended: once the call that removed a stream has returned, and as long as no
\* other call has begun, no lookup of the router finds the record of that stream, so
\* no frame looked up after the return reaches its callback; only a frame whose
\* lookup came before the removal can still have the callback invoked.
C34_NoLookupAfterRemoval ==
    [][\A s \in ValidStreams : \A t \in Threads :
          (/\ Removed(s)
           /\ pc[t] = "on_message" /\ pc'[t] # "on_message"
           /\ RouteKey(rx[t].message) = StreamKey(s)) =>
              /\ pc'[t] = "msg_done"
              /\ rx'[t].sub_info = NoSub
              /\ rx'[t].invoked = <<>>]_vars

C34_Witness ==
    \E t \in Threads :
       /\ Removed(S_BTC)
       /\ calls = 1
       /\ pc[t] = "msg_done"
       /\ rx[t].message = QuoteFrame("BTCUSD")
       /\ rx[t].invoked = <<>>
       /\ status = CONNECTED

\* C35: one _request call that carries the tokens sends its HTTP request at most twice
\* and calls login at most twice; after the second request nothing is sent and no login
\* is called any more, and a 401 answer to it ends the call with CapitalComAPIError.
C35_RequestRetriesOnce ==
    [][req'.at # "idle" =>
          /\ req'.sent <= 2
          /\ req'.logins <= 2
          /\ (req.at # "idle" /\ req.sent = 2 /\ req' # req /\ req'.at # "auth") =>
                /\ req'.sent = 2 /\ req'.logins = req.logins
                /\ req'.at = "done"
                /\ (req.status = 401) => req'.raised = "CapitalComAPIError"]_vars

C35_Witness ==
    /\ req.at = "done"
    /\ req.sent = 2
    /\ req.logins = 2
    /\ req.status = 401
    /\ req.raised = "CapitalComAPIError"

\* C36: whenever login() has been called, it has returned True only with both tokens
\* present, and whenever it has returned False both tokens are absent, whatever made
\* it fail.
C36_LoginFailureClearsTokens ==
    [][(req'.at # "idle" /\ req.at # "idle" /\ req'.logins > req.logins) =>
          /\ req'.login_ok => (cst' /\ xst')
          /\ ~req'.login_ok => (~cst' /\ ~xst')]_vars

\* a record that every loop over the registry can build its frame for
WellFormed(r) ==
    /\ r.active = TRUE
    /\ r.data_type \in {MARKET, OHLC}
    /\ r.data_type = OHLC => (r.resolution # None /\ r.bar_type # None)

\* C37: every record of the registry is active, has the data type MARKET or OHLC and,
\* when OHLC, a resolution and a bar type; so no record of a snapshot of _ws_on_open
\* and no item captured by stop_all is one that the loop skips.
C37_RecordsAreWellFormed ==
    /\ \A i \in DOMAIN subs : WellFormed(subs[i])
    /\ \A t \in Threads : \A i \in DOMAIN snap[t] :
          WellFormed(snap[t][i]) /\ ResubscribeMsg(snap[t][i]) # NoMsg
    /\ \A i \in DOMAIN captured :
          /\ UnsubAllMsg(captured[i]) # NoMsg
          /\ captured[i].data_type = OHLC =>
                (captured[i].resolution # None /\ captured[i].bar_type # None)

C37_Witness ==
    /\ raised = "ValueError"
    /\ cpc = "idle"
    /\ Len(subs) = 1
    /\ subs[1].data_type = OHLC
    /\ \E t \in Threads : pc[t] = "on_open_send" /\ snap[t] = subs

====
